---- MODULE Spec2Model ----
(***************************************************************************)
(* A model of the `trace` ray tracer (sinarabiei/trace).                   *)
(*                                                                         *)
(* Numbers.  The program computes in f64.  The model computes in signed    *)
(* fixed point: an integer n stands for the number n / Scale, with         *)
(* Scale = 10^6, so EPSILON (0.00001) is 10 units and there are values     *)
(* strictly between 0 and EPSILON.  Products, quotients and square roots   *)
(* are truncated toward zero to a multiple of 1/Scale.  All intermediate   *)
(* values are kept below 2^31 (TLC's integers), which limits magnitudes to *)
(* about 2000.0; the scenes below stay far inside that range.              *)
(*                                                                         *)
(* Locals.  A `let` of the source whose value is used more than once is a  *)
(* parameter of a second operator, named after the function with a suffix, *)
(* so that the value is computed once, as in the source.                   *)
(***************************************************************************)
EXTENDS Integers, Sequences, FiniteSets, TLC

VARIABLES
    op,       \* the operation last applied ("idle" before any)
    args,     \* the inputs it was applied to
    res,      \* what it returned
    pc,       \* Camera::render: position in the loop
    world,    \* Camera::render: the World argument
    camera,   \* Camera::render: self
    x,        \* Camera::render: loop variable x
    y,        \* Camera::render: loop variable y
    image,    \* Camera::render: the Canvas being filled
    visited,  \* history: the pixels computed so far, in order
    tasks,    \* render with one task per pixel: each task's position
    OBJECT_COUNTER,  \* prelude.rs: the static AtomicUsize
    threads,         \* each thread's position in a shape constructor
    constructed,     \* history: the shapes constructed so far, in order
    live             \* the shapes that exist (constructed and not dropped)

benchVars == <<op, args, res>>
renderVars == <<pc, world, camera, x, y, image, visited, tasks>>
idVars == <<OBJECT_COUNTER, threads, constructed, live>>
vars == <<op, args, res, pc, world, camera, x, y, image, visited, tasks,
          OBJECT_COUNTER, threads, constructed, live>>

----------------------------------------------------------------------------
(* f64 arithmetic, as fixed point                                          *)

Scale == 1000 * 1000

\* prelude.rs: pub const EPSILON: f64 = 0.00001
EPSILON == 10

Abs(a) == IF a < 0 THEN -a ELSE a
Sgn(a) == IF a < 0 THEN -1 ELSE 1

\* (ah * 1000 + al) * (bh * 1000 + bl) = MulHigh * Scale + MulLow, with
\* 0 <= MulLow < Scale
MulHigh(ah, al, bh, bl) ==
    ah * bh + ((ah * bl + al * bh) \div 1000)
    + ((((ah * bl + al * bh) % 1000) * 1000 + al * bl) \div Scale)

MulLow(ah, al, bh, bl) ==
    (((ah * bl + al * bh) % 1000) * 1000 + al * bl) % Scale

\* a * b
FMul(a, b) ==
    Sgn(a) * Sgn(b)
    * MulHigh(Abs(a) \div 1000, Abs(a) % 1000, Abs(b) \div 1000, Abs(b) % 1000)

RECURSIVE DivDigits(_, _, _, _)
DivDigits(r, b, q, n) ==
    IF n = 0 THEN q
    ELSE DivDigits((r * 10) % b, b, q * 10 + ((r * 10) \div b), n - 1)

\* a / b for b # 0 (the callers guard b, as the program does)
FDiv(a, b) ==
    Sgn(a) * Sgn(b) * DivDigits(Abs(a) % Abs(b), Abs(b), Abs(a) \div Abs(b), 6)

\* s * s <= v, for s >= 0
SqrtFits(s, v) ==
    \/ MulHigh(s \div 1000, s % 1000, s \div 1000, s % 1000) < v
    \/ /\ MulHigh(s \div 1000, s % 1000, s \div 1000, s % 1000) = v
       /\ MulLow(s \div 1000, s % 1000, s \div 1000, s % 1000) = 0

RECURSIVE SqrtSearch(_, _, _)
SqrtSearch(v, lo, hi) ==
    IF lo >= hi THEN lo
    ELSE IF SqrtFits((lo + hi + 1) \div 2, v)
         THEN SqrtSearch(v, (lo + hi + 1) \div 2, hi)
         ELSE SqrtSearch(v, lo, ((lo + hi + 1) \div 2) - 1)

\* a.sqrt() for a >= 0: the largest s with s * s <= a
FSqrt(a) == SqrtSearch(a, 0, 32768 * 1000)

\* a.floor()
FFloor(a) == (a \div Scale) * Scale

\* a % b on f64: the remainder has the sign of the dividend
FRem(a, b) == Sgn(a) * (Abs(a) % Abs(b))

Square(a) == FMul(a, a)

RECURSIVE FPow(_, _)
\* a.powf(n) for a whole exponent n >= 0
FPow(a, n) ==
    IF n = 0 THEN Scale
    ELSE IF n % 2 = 0 THEN Square(FPow(a, n \div 2))
    ELSE FMul(a, FPow(a, n - 1))

\* a whole number as f64
Num(n) == n * Scale

\* n / 10 as f64
Tenths(n) == n * (Scale \div 10)

\* prelude.rs: is_equal
is_equal(lhs, rhs) == Abs(lhs - rhs) < EPSILON

----------------------------------------------------------------------------
(* vector.rs, point.rs, color.rs: a Point and a Vector are [x, y, z], a    *)
(* Color is [red, green, blue]                                             *)

Vec3(a, b, c) == [x |-> a, y |-> b, z |-> c]
color(r, g, b) == [red |-> r, green |-> g, blue |-> b]
BLACK == color(0, 0, 0)
WHITE == color(Scale, Scale, Scale)

\* impl Add for Vector, impl Add<Vector> for Point
VAdd(a, b) == Vec3(a.x + b.x, a.y + b.y, a.z + b.z)
\* impl Sub for Vector, impl Sub for Point, impl Sub<Vector> for Point
VSub(a, b) == Vec3(a.x - b.x, a.y - b.y, a.z - b.z)
\* impl Neg for Vector
VNeg(a) == Vec3(-a.x, -a.y, -a.z)
\* impl Mul<T> for Vector
VScale(a, k) == Vec3(FMul(a.x, k), FMul(a.y, k), FMul(a.z, k))

dot(a, b) == FMul(a.x, b.x) + FMul(a.y, b.y) + FMul(a.z, b.z)

magnitude(a) == FSqrt(FMul(a.x, a.x) + FMul(a.y, a.y) + FMul(a.z, a.z))

\* a division by the magnitude squared
normalize_by_mutant(a, m) ==
    IF is_equal(m, 0) THEN a
    ELSE Vec3(FDiv(a.x, FMul(m, m)), FDiv(a.y, FMul(m, m)), FDiv(a.z, FMul(m, m)))

\* Vector::normalize, from `let magnitude` on
normalize_by(a, m) ==
    IF is_equal(m, 0) THEN a
    ELSE Vec3(FDiv(a.x, m), FDiv(a.y, m), FDiv(a.z, m))

normalize(a) == normalize_by(a, magnitude(a))

reflect(a, n) == VSub(a, VScale(VScale(n, Num(2)), dot(a, n)))

\* impl Add for Color
CAdd(a, b) == color(a.red + b.red, a.green + b.green, a.blue + b.blue)
\* impl Mul for Color (Hadamard product)
CMul(a, b) == color(FMul(a.red, b.red), FMul(a.green, b.green), FMul(a.blue, b.blue))
\* impl Mul<T> for Color
CScale(a, k) == color(FMul(a.red, k), FMul(a.green, k), FMul(a.blue, k))

----------------------------------------------------------------------------
(* mat2.rs, mat3.rs, mat4.rs: a matrix is the sequence of its elements in  *)
(* row-major order, as in the Vec<f64> of the source                       *)

\* impl Index for Mat4 / Mat3 / Mat2, with both indices in bounds
Mat4_at(m, row, col) == m[row * 4 + col + 1]
Mat3_at(m, row, col) == m[row * 3 + col + 1]
Mat2_at(m, row, col) == m[row * 2 + col + 1]

Mat4_identity ==
    << Scale, 0, 0, 0,
       0, Scale, 0, 0,
       0, 0, Scale, 0,
       0, 0, 0, Scale >>

\* a transpose whose loop stops a row early: row 3 stays as Mat4::zero left it
Mat4_transpose_mutant(m) ==
    [i \in 1..16 |-> IF (i - 1) \div 4 = 3 THEN 0
                     ELSE Mat4_at(m, (i - 1) % 4, (i - 1) \div 4)]

\* Mat4::transpose: mat[(row, col)] = self[(col, row)]
Mat4_transpose(m) == [i \in 1..16 |-> Mat4_at(m, (i - 1) % 4, (i - 1) \div 4)]

\* (-1_i8).pow(n) as f64, as a factor
MinusOnePow(n) == IF n % 2 = 0 THEN 1 ELSE -1

\* the indices 0..n-1 without k, in order
Without(n, k) == [i \in 1..(n - 1) |-> IF i <= k THEN i - 1 ELSE i]

Mat2_determinant(m) ==
    FMul(Mat2_at(m, 0, 0), Mat2_at(m, 1, 1)) - FMul(Mat2_at(m, 0, 1), Mat2_at(m, 1, 0))

\* the elements (r, c) with r # row and c # col, in row-major order
Mat3_submatrix(m, row, col) ==
    [i \in 1..4 |-> Mat3_at(m, Without(3, row)[((i - 1) \div 2) + 1],
                               Without(3, col)[((i - 1) % 2) + 1])]

Mat3_minor(m, row, col) == Mat2_determinant(Mat3_submatrix(m, row, col))

Mat3_cofactor(m, row, col) == MinusOnePow(row + col) * Mat3_minor(m, row, col)

RECURSIVE Mat3_determinant_from(_, _)
\* the loop of Mat3::determinant from column col on
Mat3_determinant_from(m, col) ==
    IF col = 3 THEN 0
    ELSE FMul(Mat3_at(m, 0, col), Mat3_cofactor(m, 0, col))
         + Mat3_determinant_from(m, col + 1)

Mat3_determinant(m) == Mat3_determinant_from(m, 0)

Mat4_submatrix(m, row, col) ==
    [i \in 1..9 |-> Mat4_at(m, Without(4, row)[((i - 1) \div 3) + 1],
                               Without(4, col)[((i - 1) % 3) + 1])]

Mat4_minor(m, row, col) == Mat3_determinant(Mat4_submatrix(m, row, col))

\* a cofactor without its sign
Mat4_cofactor_mutant(m, row, col) == Mat4_minor(m, row, col)

Mat4_cofactor(m, row, col) == MinusOnePow(row + col) * Mat4_minor(m, row, col)

RECURSIVE Mat4_determinant_from(_, _)
\* the loop of Mat4::determinant from column col on
Mat4_determinant_from(m, col) ==
    IF col = 4 THEN 0
    ELSE FMul(Mat4_at(m, 0, col), Mat4_cofactor(m, 0, col))
         + Mat4_determinant_from(m, col + 1)

Mat4_determinant(m) == Mat4_determinant_from(m, 0)

\* Mat4::inverse, from `let det` on: [panic |-> TRUE] when it panics, the
\* matrix in mat otherwise; mat[(col, row)] = cofactor(row, col) / det
Mat4_inverse_of_mutant(m, det) ==
    IF is_equal(det, 0) THEN [panic |-> FALSE, mat |-> Mat4_identity]
    ELSE [panic |-> FALSE,
          mat |-> [i \in 1..16 |->
                      FDiv(Mat4_cofactor(m, (i - 1) % 4, (i - 1) \div 4), det)]]

Mat4_inverse_of(m, det) ==
    IF is_equal(det, 0) THEN [panic |-> TRUE, mat |-> << >>]
    ELSE [panic |-> FALSE,
          mat |-> [i \in 1..16 |->
                      FDiv(Mat4_cofactor(m, (i - 1) % 4, (i - 1) \div 4), det)]]

Mat4_inverse(m) == Mat4_inverse_of(m, Mat4_determinant(m))

\* impl Mul for Mat4
Mat4_mul(a, b) ==
    [i \in 1..16 |->
        FMul(Mat4_at(a, (i - 1) \div 4, 0), Mat4_at(b, 0, (i - 1) % 4))
        + FMul(Mat4_at(a, (i - 1) \div 4, 1), Mat4_at(b, 1, (i - 1) % 4))
        + FMul(Mat4_at(a, (i - 1) \div 4, 2), Mat4_at(b, 2, (i - 1) % 4))
        + FMul(Mat4_at(a, (i - 1) \div 4, 3), Mat4_at(b, 3, (i - 1) % 4))]

\* row r of m times the tuple (a, b, c, w)
Mat4_row_times(m, r, a, b, c, w) ==
    FMul(Mat4_at(m, r, 0), a) + FMul(Mat4_at(m, r, 1), b)
    + FMul(Mat4_at(m, r, 2), c) + FMul(Mat4_at(m, r, 3), w)

\* impl Mul<Point> for Mat4: the point converts to a tuple with w = 1.0
Mat4_mul_point(m, p) ==
    Vec3(Mat4_row_times(m, 0, p.x, p.y, p.z, Scale),
         Mat4_row_times(m, 1, p.x, p.y, p.z, Scale),
         Mat4_row_times(m, 2, p.x, p.y, p.z, Scale))

\* impl Mul<Vector> for Mat4: the vector converts to a tuple with w = 0.0
Mat4_mul_vector(m, v) ==
    Vec3(Mat4_row_times(m, 0, v.x, v.y, v.z, 0),
         Mat4_row_times(m, 1, v.x, v.y, v.z, 0),
         Mat4_row_times(m, 2, v.x, v.y, v.z, 0))

\* a translate that multiplies the elementary matrix on the right of self
translate_mutant(m, tx, ty, tz) ==
    Mat4_mul(m, << Scale, 0, 0, tx,
                   0, Scale, 0, ty,
                   0, 0, Scale, tz,
                   0, 0, 0, Scale >>)

\* Mat4::translate: the elementary matrix, left-multiplied onto self
translate(m, tx, ty, tz) ==
    Mat4_mul(<< Scale, 0, 0, tx,
                0, Scale, 0, ty,
                0, 0, Scale, tz,
                0, 0, 0, Scale >>, m)

\* Mat4::scale
scale(m, sx, sy, sz) ==
    Mat4_mul(<< sx, 0, 0, 0,
                0, sy, 0, 0,
                0, 0, sz, 0,
                0, 0, 0, Scale >>, m)

\* f64::cos and f64::sin, truncated, at the angles the model turns by:
\* 0, PI / 4, PI / 2 and PI (the fixed-point values of the radians)
\* core::f64::consts::PI
Pi == 3141592
HalfPi == Pi \div 2
QuarterPi == Pi \div 4

cos(rad) ==
    CASE rad = 0 -> Scale
      [] rad = QuarterPi -> 707106
      [] rad = HalfPi -> 0
      [] rad = Pi -> -Scale

sin(rad) ==
    CASE rad = 0 -> 0
      [] rad = QuarterPi -> 707106
      [] rad = HalfPi -> Scale
      [] rad = Pi -> 0

\* Mat4::rotate_x
rotate_x(m, rad) ==
    Mat4_mul(<< Scale, 0, 0, 0,
                0, cos(rad), -sin(rad), 0,
                0, sin(rad), cos(rad), 0,
                0, 0, 0, Scale >>, m)

\* Mat4::rotate_y
rotate_y(m, rad) ==
    Mat4_mul(<< cos(rad), 0, sin(rad), 0,
                0, Scale, 0, 0,
                -sin(rad), 0, cos(rad), 0,
                0, 0, 0, Scale >>, m)

\* Mat4::rotate_z
rotate_z(m, rad) ==
    Mat4_mul(<< cos(rad), -sin(rad), 0, 0,
                sin(rad), cos(rad), 0, 0,
                0, 0, Scale, 0,
                0, 0, 0, Scale >>, m)

\* Mat4::shear
shear(m, x_y, x_z, y_x, y_z, z_x, z_y) ==
    Mat4_mul(<< Scale, x_y, x_z, 0,
                y_x, Scale, y_z, 0,
                z_x, z_y, Scale, 0,
                0, 0, 0, Scale >>, m)

\* impl PartialEq for Point / Vector
Vec3_eq(a, b) == is_equal(a.x, b.x) /\ is_equal(a.y, b.y) /\ is_equal(a.z, b.z)

\* impl PartialEq for Mat4: every element is_equal
Mat4_eq(a, b) == \A i \in 1..16 : is_equal(a[i], b[i])

\* self.transform().inverse() where the transform is invertible
inv(m) == Mat4_inverse(m).mat

----------------------------------------------------------------------------
(* ray.rs                                                                  *)

Ray(o, d) == [origin |-> o, direction |-> d]

position(ray, t) == VAdd(ray.origin, VScale(ray.direction, t))

Ray_transform(ray, m) ==
    Ray(Mat4_mul_point(m, ray.origin), Mat4_mul_vector(m, ray.direction))

----------------------------------------------------------------------------
(* pattern.rs, pattern/stripe.rs, material.rs                              *)

\* Option<Box<dyn Pattern>>: None, or Some(Stripe {a, b, transform})
None_pattern ==
    [some |-> FALSE, a |-> BLACK, b |-> BLACK, transform |-> Mat4_identity]
Stripe(a, b, transform) ==
    [some |-> TRUE, a |-> a, b |-> b, transform |-> transform]

\* x cut off toward zero in place of floor
Stripe_at_mutant(pattern, point) ==
    IF is_equal(FRem(Sgn(point.x) * FFloor(Abs(point.x)), Num(2)), 0)
    THEN pattern.a ELSE pattern.b

Stripe_at(pattern, point) ==
    IF is_equal(FRem(FFloor(point.x), Num(2)), 0) THEN pattern.a ELSE pattern.b

at_object(pattern, object, world_point) ==
    Stripe_at(pattern,
              Mat4_mul_point(inv(pattern.transform),
                             Mat4_mul_point(inv(object.transform), world_point)))

Material(pattern, col, ambient, diffuse, specular, shininess) ==
    [pattern |-> pattern, color |-> col, ambient |-> ambient,
     diffuse |-> diffuse, specular |-> specular, shininess |-> shininess]

\* Material::lighting: `let color = match &self.pattern`
lighting_color(self, object, point) ==
    IF self.pattern.some THEN at_object(self.pattern, object, point)
    ELSE self.color

\* Material::lighting: the test that leaves diffuse and specular black
lighting_dark_mutant(light_dot_normal, in_shadow) == light_dot_normal < 0

lighting_dark(light_dot_normal, in_shadow) == light_dot_normal < 0 \/ in_shadow

\* Material::lighting: diffuse
lighting_diffuse(self, effective_color, light_dot_normal, in_shadow) ==
    IF lighting_dark(light_dot_normal, in_shadow) THEN BLACK
    ELSE CScale(CScale(effective_color, self.diffuse), light_dot_normal)

\* Material::lighting: specular, given reflect_dot_eye; shininess holds the
\* whole exponent given to powf
lighting_specular(self, light, light_dot_normal, in_shadow, reflect_dot_eye) ==
    IF lighting_dark(light_dot_normal, in_shadow) THEN BLACK
    ELSE IF reflect_dot_eye < 0 \/ is_equal(reflect_dot_eye, 0) THEN BLACK
    ELSE CScale(CScale(light.intensity, self.specular),
                FPow(reflect_dot_eye, self.shininess))

\* Material::lighting, from `let ambient` on
lighting_sum(self, light, eye, normal, in_shadow, effective_color, light_vector) ==
    CAdd(CAdd(CScale(effective_color, self.ambient),
              lighting_diffuse(self, effective_color,
                               dot(light_vector, normal), in_shadow)),
         lighting_specular(self, light, dot(light_vector, normal), in_shadow,
                           dot(reflect(VNeg(light_vector), normal), eye)))

lighting(self, object, light, point, eye, normal, in_shadow) ==
    lighting_sum(self, light, eye, normal, in_shadow,
                 CMul(lighting_color(self, object, point), light.intensity),
                 normalize(VSub(light.position, point)))

----------------------------------------------------------------------------
(* shape.rs, sphere.rs, plane.rs                                           *)

Shape(id, kind, transform, material) ==
    [id |-> id, kind |-> kind, transform |-> transform, material |-> material]

Intersection(t, object) == [t |-> t, object |-> object]

\* impl PartialEq for Color
Color_eq(a, b) ==
    is_equal(a.red, b.red) /\ is_equal(a.green, b.green) /\ is_equal(a.blue, b.blue)

\* the patterns compared as well
Material_eq_mutant(self, rhs) ==
    /\ self.pattern = rhs.pattern
    /\ Color_eq(self.color, rhs.color)
    /\ is_equal(self.ambient, rhs.ambient)
    /\ is_equal(self.diffuse, rhs.diffuse)
    /\ is_equal(self.specular, rhs.specular)
    /\ is_equal(Num(self.shininess), Num(rhs.shininess))

\* impl PartialEq for Material: the pattern is not compared; shininess is
\* held as a whole number
Material_eq(self, rhs) ==
    /\ Color_eq(self.color, rhs.color)
    /\ is_equal(self.ambient, rhs.ambient)
    /\ is_equal(self.diffuse, rhs.diffuse)
    /\ is_equal(self.specular, rhs.specular)
    /\ is_equal(Num(self.shininess), Num(rhs.shininess))

\* impl PartialEq for dyn Shape
Shape_eq(self, rhs) == self.id = rhs.id

\* #[derive(PartialEq)] on Sphere: every field, in order
Sphere_eq(self, rhs) ==
    /\ self.id = rhs.id
    /\ Mat4_eq(self.transform, rhs.transform)
    /\ Material_eq(self.material, rhs.material)

\* #[derive(PartialEq)] on Plane
Plane_eq(self, rhs) ==
    /\ self.id = rhs.id
    /\ Mat4_eq(self.transform, rhs.transform)
    /\ Material_eq(self.material, rhs.material)

\* Sphere::local_intersect: sphere_to_ray, a, b, c and the discriminant
Sphere_to_ray(local_ray) == VSub(local_ray.origin, Vec3(0, 0, 0))

Sphere_a(local_ray) == dot(local_ray.direction, local_ray.direction)

Sphere_b(local_ray) ==
    FMul(Num(2), dot(local_ray.direction, Sphere_to_ray(local_ray)))

Sphere_c(local_ray) ==
    dot(Sphere_to_ray(local_ray), Sphere_to_ray(local_ray)) - Num(1)

Sphere_discriminant(local_ray) ==
    Square(Sphere_b(local_ray))
    - FMul(FMul(Num(4), Sphere_a(local_ray)), Sphere_c(local_ray))

\* Sphere::local_intersect, from `if discriminant < 0.0` on
Sphere_roots_mutant(self, a, b, discriminant) ==
    IF discriminant < 0 THEN << >>
    ELSE << Intersection(FDiv(-b - FSqrt(discriminant), FMul(Num(2), a)), self),
            Intersection(FDiv(-b + FSqrt(discriminant), FMul(Num(2), a)), self) >>

Sphere_roots(self, a, b, discriminant) ==
    IF discriminant < 0 THEN << >>
    ELSE IF is_equal(discriminant, 0)
    THEN << Intersection(FDiv(-b - FSqrt(discriminant), FMul(Num(2), a)), self) >>
    ELSE << Intersection(FDiv(-b - FSqrt(discriminant), FMul(Num(2), a)), self),
            Intersection(FDiv(-b + FSqrt(discriminant), FMul(Num(2), a)), self) >>

Sphere_local_intersect(self, local_ray) ==
    Sphere_roots(self, Sphere_a(local_ray), Sphere_b(local_ray),
                 Sphere_discriminant(local_ray))

Sphere_local_normal_at(self, local_point) == VSub(local_point, Vec3(0, 0, 0))

Plane_local_intersect_mutant(self, ray) ==
    IF ray.direction.y = 0 THEN << >>
    ELSE << Intersection(FDiv(ray.origin.y, ray.direction.y), self) >>

Plane_local_intersect(self, ray) ==
    IF Abs(ray.direction.y) < EPSILON THEN << >>
    ELSE << Intersection(FDiv(-ray.origin.y, ray.direction.y), self) >>

Plane_local_normal_at(self, local_point) == Vec3(0, Num(1), 0)

\* dyn Shape: the variant's local_intersect / local_normal_at
local_intersect(self, local_ray) ==
    IF self.kind = "Sphere" THEN Sphere_local_intersect(self, local_ray)
    ELSE Plane_local_intersect(self, local_ray)

local_normal_at(self, local_point) ==
    IF self.kind = "Sphere" THEN Sphere_local_normal_at(self, local_point)
    ELSE Plane_local_normal_at(self, local_point)

\* Shape::intersect
intersect(self, ray) == local_intersect(self, Ray_transform(ray, inv(self.transform)))

\* Shape::normal_at
normal_at(self, point) ==
    normalize(Mat4_mul_vector(Mat4_transpose(inv(self.transform)),
                              local_normal_at(self,
                                  Mat4_mul_point(inv(self.transform), point))))

----------------------------------------------------------------------------
(* intersection.rs                                                         *)

\* impl PartialOrd for Intersection
partial_cmp(self, other) ==
    IF self.t < other.t THEN "Less"
    ELSE IF is_equal(self.t, other.t) THEN "Equal"
    ELSE "Greater"

RECURSIVE insert_tail(_, _)
\* one pass of the insertion sort: e moves left past every element it is Less than
insert_tail(sorted, e) ==
    IF sorted = << >> THEN << e >>
    ELSE IF partial_cmp(e, sorted[Len(sorted)]) = "Less"
         THEN Append(insert_tail(SubSeq(sorted, 1, Len(sorted) - 1), e),
                     sorted[Len(sorted)])
         ELSE Append(sorted, e)

RECURSIVE sort_from(_, _)
sort_from(sorted, rest) ==
    IF rest = << >> THEN sorted
    ELSE sort_from(insert_tail(sorted, Head(rest)), Tail(rest))

\* intersections.sort_by(|a, b| a.partial_cmp(b).unwrap()): the stable sort of
\* the standard library, which moves e before f only when cmp(e, f) is Less
sort_by_mutant(intersections) == intersections

sort_by(intersections) == sort_from(<< >>, intersections)

\* the closure given to find in Intersection::hit
hit_accepts_mutant(intersection) == TRUE

hit_accepts(intersection) == intersection.t > 0 \/ is_equal(intersection.t, 0)

RECURSIVE find_hit(_)
\* intersections.iter().find(..): the first element the closure accepts
find_hit(intersections) ==
    IF intersections = << >> THEN << >>
    ELSE IF hit_accepts(Head(intersections)) THEN << Head(intersections) >>
    ELSE find_hit(Tail(intersections))

\* Intersection::hit: << >> is None, << i >> is Some(i)
hit(intersections) == find_hit(intersections)

\* Intersection::prepare, from `let over_point` on
prepare_comps(self, point, eyev, normal, inside) ==
    [t |-> self.t, object |-> self.object, point |-> point,
     over_point |-> VAdd(point, VScale(normal, EPSILON)),
     eyev |-> eyev, normal |-> normal, inside |-> inside]

\* inside set, the normal left as it was
prepare_facing_mutant(self, point, eyev, normal) ==
    IF dot(normal, eyev) < 0
    THEN prepare_comps(self, point, eyev, normal, TRUE)
    ELSE prepare_comps(self, point, eyev, normal, FALSE)

\* Intersection::prepare, from `let mut inside` on
prepare_facing(self, point, eyev, normal) ==
    IF dot(normal, eyev) < 0
    THEN prepare_comps(self, point, eyev, VNeg(normal), TRUE)
    ELSE prepare_comps(self, point, eyev, normal, FALSE)

prepare(self, ray) ==
    prepare_facing(self, position(ray, self.t), VNeg(ray.direction),
                   normal_at(self.object, position(ray, self.t)))

----------------------------------------------------------------------------
(* world.rs                                                                *)

Light(pos, intensity) == [position |-> pos, intensity |-> intensity]

World(light, objects) == [light |-> light, objects |-> objects]

RECURSIVE collect(_, _)
\* the two nested loops of World::intersect: every object in order, every
\* intersection of the object in order
collect(objects, ray) ==
    IF objects = << >> THEN << >>
    ELSE intersect(Head(objects), ray) \o collect(Tail(objects), ray)

World_intersect(self, ray) == sort_by(collect(self.objects, ray))

\* World::is_shadowed, from `if let Some(hit) = hit` on
is_shadowed_by_mutant(distance, h) == h # << >>

is_shadowed_by(distance, h) == h # << >> /\ h[1].t < distance

is_shadowed(self, point) ==
    is_shadowed_by(magnitude(VSub(self.light.position, point)),
                   hit(World_intersect(self,
                           Ray(point, normalize(VSub(self.light.position, point))))))

shade_hit_mutant(self, comps) ==
    lighting(comps.object.material, comps.object, self.light,
             comps.point, comps.eyev, comps.normal,
             is_shadowed(self, comps.over_point))

shade_hit(self, comps) ==
    lighting(comps.object.material, comps.object, self.light,
             comps.over_point, comps.eyev, comps.normal,
             is_shadowed(self, comps.over_point))

\* World::color_at, from `match hit` on
color_at_hit_mutant(self, ray, h) ==
    IF h # << >> THEN shade_hit(self, prepare(h[1], ray)) ELSE WHITE

color_at_hit(self, ray, h) ==
    IF h # << >> THEN shade_hit(self, prepare(h[1], ray)) ELSE BLACK

color_at(self, ray) == color_at_hit(self, ray, hit(World_intersect(self, ray)))

----------------------------------------------------------------------------
(* canvas.rs, camera.rs                                                    *)

Canvas_new(width, height) ==
    [width |-> width, height |-> height, array |-> [i \in 1..(width * height) |-> BLACK]]

\* impl Index for Canvas, with the index in bounds
Canvas_at(self, ix, iy) == self.array[iy * self.width + ix + 1]

\* canvas[(ix, iy)] = c through IndexMut, with the index in bounds
Canvas_set(self, ix, iy, c) ==
    [self EXCEPT !.array[iy * self.width + ix + 1] = c]

\* a String is the sequence of its characters
DigitChars == << "0", "1", "2", "3", "4", "5", "6", "7", "8", "9" >>

RECURSIVE usize_to_string(_)
\* usize::to_string, and f64::to_string of a whole number from 0 on
usize_to_string(n) ==
    IF n < 10 THEN << DigitChars[n + 1] >>
    ELSE Append(usize_to_string(n \div 10), DigitChars[(n % 10) + 1])

\* f64::ceil
FCeil(a) == -FFloor(-a)

\* f64::clamp(min, max): `if self < min { min } else if self > max { max }`
clamp(a, min, max) == IF a < min THEN min ELSE IF a > max THEN max ELSE a

\* (channel * 255.0).ceil().clamp(0.0, 255.0).to_string(), from the product
\* on.  ceil of a value in (-1, 0) is -0.0, which is not below 0.0, so clamp
\* returns it, and f64's Display prints the sign of a negative zero.
channel_text(scaled) ==
    IF -Scale < scaled /\ scaled < 0 THEN << "-", "0" >>
    ELSE usize_to_string(clamp(FCeil(scaled), 0, Num(255)) \div Scale)

channel_to_string(channel) == channel_text(FMul(channel, Num(255)))

\* push_color with a limit of 72 characters
push_color_mutant(st, text) ==
    IF st.count = 0
    THEN [ppm |-> st.ppm \o text, count |-> Len(text)]
    ELSE IF st.count + 1 + Len(text) > 72
         THEN [ppm |-> Append(st.ppm, "\n") \o text, count |-> Len(text)]
         ELSE [ppm |-> Append(st.ppm, " ") \o text,
               count |-> st.count + 1 + Len(text)]

\* push_color: st holds the string behind `ppm` and the count; the result
\* holds the string afterwards and the count returned
push_color(st, text) ==
    IF st.count = 0
    THEN [ppm |-> st.ppm \o text, count |-> Len(text)]
    ELSE IF st.count + 1 + Len(text) > 70
         THEN [ppm |-> Append(st.ppm, "\n") \o text, count |-> Len(text)]
         ELSE [ppm |-> Append(st.ppm, " ") \o text,
               count |-> st.count + 1 + Len(text)]

\* the three push_color calls of one pixel
push_pixel(st, pixel) ==
    push_color(push_color(push_color(st, channel_to_string(pixel.red)),
                          channel_to_string(pixel.green)),
               channel_to_string(pixel.blue))

RECURSIVE to_ppm_row(_, _, _, _)
\* Canvas::to_ppm: `for width in 0..self.width` from width on, then the
\* newline that ends the row
to_ppm_row(self, st, height, width) ==
    IF width = self.width THEN Append(st.ppm, "\n")
    ELSE to_ppm_row(self, push_pixel(st, Canvas_at(self, width, height)),
                    height, width + 1)

RECURSIVE to_ppm_rows(_, _, _)
\* Canvas::to_ppm: `for height in 0..self.height` from height on, with
\* char_count = 0 at the start of every row
to_ppm_rows(self, ppm, height) ==
    IF height = self.height THEN ppm
    ELSE to_ppm_rows(self,
                     to_ppm_row(self, [ppm |-> ppm, count |-> 0], height, 0),
                     height + 1)

\* Canvas::to_ppm: the three header lines
to_ppm_header(self) ==
    << "P", "3", "\n" >>
    \o usize_to_string(self.width) \o << " " >> \o usize_to_string(self.height)
    \o << "\n", "2", "5", "5", "\n" >>

\* Canvas::to_ppm
to_ppm(self) == to_ppm_rows(self, to_ppm_header(self), 0)

\* f64::tan at the half angles used: pi/6, pi/4, pi/3
tan(rad) ==
    CASE rad = Pi \div 6 -> 577350
      [] rad = QuarterPi -> Num(1)
      [] rad = Pi \div 3 -> 1732051

\* the branches of Camera::new the other way round
Camera_new_mutant(hsize, vsize, half_view) ==
    LET aspect      == FDiv(Num(hsize), Num(vsize))
        half_width  == IF aspect < Num(1) THEN half_view ELSE FMul(half_view, aspect)
        half_height == IF aspect < Num(1) THEN FDiv(half_view, aspect) ELSE half_view
    IN  [hsize |-> hsize, vsize |-> vsize, half_view |-> half_view,
         transform |-> Mat4_identity,
         half_height |-> half_height, half_width |-> half_width,
         pixel_size |-> FDiv(FMul(half_width, Num(2)), Num(hsize))]

\* Camera::new; the field of view enters through half_view = tan(fov / 2)
Camera_new(hsize, vsize, half_view) ==
    LET aspect      == FDiv(Num(hsize), Num(vsize))
        half_width  == IF aspect >= Num(1) THEN half_view ELSE FMul(half_view, aspect)
        half_height == IF aspect >= Num(1) THEN FDiv(half_view, aspect) ELSE half_view
    IN  [hsize |-> hsize, vsize |-> vsize, half_view |-> half_view,
         transform |-> Mat4_identity,
         half_height |-> half_height, half_width |-> half_width,
         pixel_size |-> FDiv(FMul(half_width, Num(2)), Num(hsize))]

\* Camera::ray_for_pixel, from `let direction` on
ray_through(pixel, origin) == Ray(origin, normalize(VSub(pixel, origin)))

ray_for_pixel(self, px, py) ==
    ray_through(
        Mat4_mul_point(inv(self.transform),
            Vec3(self.half_width - FMul(Num(px) + (Scale \div 2), self.pixel_size),
                 self.half_height - FMul(Num(py) + (Scale \div 2), self.pixel_size),
                 -Num(1))),
        Mat4_mul_point(inv(self.transform), Vec3(0, 0, 0)))

----------------------------------------------------------------------------
(* The scenes                                                              *)

\* Material::new / Material::default
Material_new ==
    Material(None_pattern, WHITE, Tenths(1), Tenths(9), Tenths(9), 200)

\* Sphere::new / Plane::new, with the id the counter hands out
Sphere_new(id) == Shape(id, "Sphere", Mat4_identity, Material_new)
Plane_new(id) == Shape(id, "Plane", Mat4_identity, Material_new)

\* World::default
World_default ==
    World(Light(Vec3(-Num(10), Num(10), -Num(10)), WHITE),
          << [Sphere_new(0) EXCEPT
                 !.material.color = color(Tenths(8), Tenths(10), Tenths(6)),
                 !.material.diffuse = Tenths(7),
                 !.material.specular = Tenths(2)],
             [Sphere_new(1) EXCEPT
                 !.transform = scale(Mat4_identity, Tenths(5), Tenths(5), Tenths(5))] >>)

\* a striped sphere standing on a striped floor, lit from above
World_floor ==
    World(Light(Vec3(-Num(1), Num(4), Num(2)), WHITE),
          << [Sphere_new(1) EXCEPT
                 !.material.pattern =
                     Stripe(color(Tenths(2), Tenths(4), Tenths(10)), WHITE,
                            Mat4_identity),
                 !.material.shininess = 10],
             [Plane_new(0) EXCEPT
                 !.transform = translate(Mat4_identity, 0, -Num(1), 0),
                 !.material.pattern =
                     Stripe(WHITE, color(Tenths(5), 0, 0), Mat4_identity),
                 !.material.shininess = 10] >>)

\* World::new: no objects
World_empty == World(Light(Vec3(0, Num(4), 0), WHITE), << >>)

Worlds == {World_default, World_floor, World_empty}

\* the largest hsize and vsize of a camera
MaxSize == 2

\* a camera at (0, 0, 5) looking down -z, and one at (0, 0, -5) looking down +z
CameraTransforms ==
    { translate(Mat4_identity, 0, 0, -Num(5)),
      scale(translate(Mat4_identity, 0, 0, Num(5)), -Num(1), Num(1), -Num(1)) }

\* tan(fov / 2) = 0.2
Cameras ==
    { [Camera_new(h, v, Tenths(2)) EXCEPT !.transform = t] :
        h \in 1..MaxSize, v \in 1..MaxSize, t \in CameraTransforms }

(* prelude.rs: OBJECT_COUNTER *)

\* the number of threads that construct shapes
NThreads == 2

Threads == 1..NThreads

\* prelude.rs: AtomicUsize::new(0); no thread is inside a constructor
IdInit ==
    /\ OBJECT_COUNTER = 0
    /\ threads = [t \in Threads |-> [pc |-> "idle"]]
    /\ constructed = << >>
    /\ live = {}

----------------------------------------------------------------------------
(* Camera::render, one step of its loops at a time                         *)

RenderInit ==
    /\ op = "idle" /\ args = << >> /\ res = << >>
    /\ pc = "start"
    /\ world \in Worlds
    /\ camera \in Cameras
    /\ x = 0 /\ y = 0
    /\ image = Canvas_new(0, 0)
    /\ visited = << >>
    /\ tasks = << >>
    /\ IdInit

\* let mut image = Canvas::new(self.hsize, self.vsize)
Render_new ==
    /\ pc = "start"
    /\ image' = Canvas_new(camera.hsize, camera.vsize)
    /\ y' = 0
    /\ pc' = "for_y"
    /\ UNCHANGED <<op, args, res, idVars, tasks, world, camera, x, visited>>

\* for y in 0..(self.vsize): enter the row, or leave the loop
Render_for_y ==
    /\ pc = "for_y"
    /\ IF y < camera.vsize
       THEN x' = 0 /\ pc' = "for_x"
       ELSE x' = x /\ pc' = "done"
    /\ UNCHANGED <<op, args, res, idVars, tasks, world, camera, y, image, visited>>

\* the body of the inner loop
render_body_mutant(self, w, img, px, py) ==
    Canvas_set(img, px, py, color_at(w, ray_for_pixel(self, py, px)))

\* a pixel that copies the first pixel of the image instead of tracing its ray
pixel_color_mutant(self, w, img, px, py) ==
    IF px = 0 /\ py = 0 THEN color_at(w, ray_for_pixel(self, px, py))
    ELSE Canvas_at(img, 0, 0)

\* `let ray = self.ray_for_pixel(x, y); let color = world.color_at(ray)`,
\* with the image in scope
pixel_color(self, w, img, px, py) == color_at(w, ray_for_pixel(self, px, py))

render_body(self, w, img, px, py) ==
    Canvas_set(img, px, py, pixel_color(self, w, img, px, py))

\* for x in 0..(self.hsize): the loop takes the next x
Render_for_x ==
    /\ pc = "for_x"
    /\ x < camera.hsize
    /\ x' = x + 1
    /\ UNCHANGED <<pc, y>>

\* one pass through the inner loop: one pixel
Render_pixel ==
    /\ Render_for_x
    /\ image' = render_body(camera, world, image, x, y)
    /\ visited' = Append(visited, <<x, y>>)
    /\ UNCHANGED <<op, args, res, idVars, tasks, world, camera>>

\* the inner loop is exhausted: the next row
Render_row_end ==
    /\ pc = "for_x"
    /\ x >= camera.hsize
    /\ y' = y + 1
    /\ pc' = "for_y"
    /\ UNCHANGED <<op, args, res, idVars, tasks, world, camera, x, image, visited>>

RenderNext == Render_new \/ Render_for_y \/ Render_pixel \/ Render_row_end

SpecRender == RenderInit /\ [][RenderNext]_vars

\* render is a sequential function: once called it runs to its return, every
\* loop taking its next step
FairRender ==
    /\ SpecRender
    /\ WF_vars(Render_new \/ Render_for_y \/ Render_row_end)
    /\ WF_<<pc, x, y>>(Render_for_x)


----------------------------------------------------------------------------
(* Camera::render with the loop body of each pixel run as a task of its    *)
(* own: a task computes its color, then writes its pixel, and the tasks    *)
(* interleave in any order                                                 *)

\* the largest hsize of a camera whose pixels are computed by tasks
MaxTaskSize == 2

\* the cameras look from z = -5 toward the origin
TaskCameras ==
    { [Camera_new(h, v, Tenths(2)) EXCEPT
          !.transform = scale(translate(Mat4_identity, 0, 0, Num(5)),
                              -Num(1), Num(1), -Num(1))] :
        h \in 1..MaxTaskSize, v \in 1..2 }

Pixels(self) == (0..(self.hsize - 1)) \X (0..(self.vsize - 1))

TaskInit ==
    /\ op = "idle" /\ args = << >> /\ res = << >>
    /\ pc \in {"start", "task_start"}
    /\ world \in Worlds
    /\ camera \in TaskCameras
    /\ x = 0 /\ y = 0
    /\ image = Canvas_new(0, 0)
    /\ visited = << >>
    /\ tasks = << >>
    /\ IdInit

\* let mut image = Canvas::new(self.hsize, self.vsize); one task per pixel
Task_new ==
    /\ pc = "task_start"
    /\ image' = Canvas_new(camera.hsize, camera.vsize)
    /\ tasks' = [p \in Pixels(camera) |-> [pc |-> "ray"]]
    /\ pc' = "tasks"
    /\ UNCHANGED <<op, args, res, idVars, world, camera, x, y, visited>>

\* let ray = self.ray_for_pixel(x, y); let color = world.color_at(ray)
Task_color ==
    /\ pc = "tasks"
    /\ \E p \in Pixels(camera) :
          /\ tasks[p].pc = "ray"
          /\ tasks' = [tasks EXCEPT ![p] =
                          [pc |-> "set",
                           color |-> pixel_color(camera, world, image, p[1], p[2])]]
    /\ UNCHANGED <<op, args, res, idVars, pc, world, camera, x, y, image, visited>>

\* image[(x, y)] = color; the history keeps the pixel written first
Task_set ==
    /\ pc = "tasks"
    /\ \E p \in Pixels(camera) :
          /\ tasks[p].pc = "set"
          /\ image' = Canvas_set(image, p[1], p[2], tasks[p].color)
          /\ tasks' = [tasks EXCEPT ![p] = [pc |-> "end"]]
          /\ visited' = IF visited = << >> THEN << p >> ELSE visited
    /\ UNCHANGED <<op, args, res, idVars, pc, world, camera, x, y>>

\* every task has ended: render returns the image
Task_join ==
    /\ pc = "tasks"
    /\ \A p \in Pixels(camera) : tasks[p].pc = "end"
    /\ pc' = "joined"
    /\ UNCHANGED <<op, args, res, idVars, world, camera, x, y, image, visited, tasks>>

TaskNext == Task_new \/ Task_color \/ Task_set \/ Task_join \/ RenderNext

SpecTasks == TaskInit /\ [][TaskNext]_vars
----------------------------------------------------------------------------
(* The functions applied one at a time to inputs drawn from small sets:    *)
(* op names the function, args holds its arguments, res what it returned   *)

BenchInit ==
    /\ op = "idle" /\ args = << >> /\ res = << >>
    /\ pc = "off"
    /\ world = World_empty
    /\ camera = Camera_new(1, 1, Tenths(2))
    /\ x = 0 /\ y = 0
    /\ image = Canvas_new(0, 0)
    /\ visited = << >>
    /\ tasks = << >>
    /\ IdInit

\* the caller drops the result and is ready for the next call
Return ==
    /\ op # "idle"
    /\ op' = "idle" /\ args' = << >> /\ res' = << >>
    /\ UNCHANGED <<renderVars, idVars>>

(* Intersection::hit *)

\* the longest list given to hit
MaxLen == 3

HitTs == {-Num(1), -EPSILON, -4, 0, 4, EPSILON, Num(1), Num(2)}

HitIntersections == {Intersection(t, Sphere_new(0)) : t \in HitTs}

\* the callers sort ascending by t before calling
SortedLists ==
    { xs \in UNION {[1..n -> HitIntersections] : n \in 0..MaxLen} :
        \A i \in 1..(Len(xs) - 1) : xs[i].t <= xs[i + 1].t }

Hit_call ==
    /\ op = "idle"
    /\ \E xs \in SortedLists :
          /\ op' = "hit"
          /\ args' = << xs >>
          /\ res' = hit(xs)
    /\ UNCHANGED <<renderVars, idVars>>

HitNext == Hit_call \/ Return

SpecHit == BenchInit /\ [][HitNext]_vars

(* Sphere::local_intersect, Plane::local_intersect *)

SphereOrigins ==
    { Vec3(0, oy, -Num(5)) : oy \in {0, Tenths(5), 999999, Num(1), 1000001, Num(2)} }
    \cup { Vec3(0, 0, 0), Vec3(0, 0, Num(5)), Vec3(0, 0, -999996) }

SphereDirections ==
    { Vec3(0, 0, Num(1)), Vec3(0, 0, Num(2)), Vec3(0, 0, -Num(1)),
      Vec3(0, Tenths(6), Tenths(8)), Vec3(0, Num(1), 0) }

Spheres == { Sphere_new(0), Sphere_new(1) }

PlaneOrigins ==
    { Vec3(Num(1), oy, 0) : oy \in {-Num(1), -10000, -4, 0, 4, 10000, Num(1)} }

PlaneDirections ==
    { Vec3(0, dy, Num(1)) :
        dy \in {-Num(1), -Tenths(5), -EPSILON, -9, 0, 9, EPSILON, Num(1)} }

\* the rays whose t, when there is one, is below 2000.0
PlaneRays ==
    { r \in { Ray(o, d) : o \in PlaneOrigins, d \in PlaneDirections } :
        \/ Abs(r.direction.y) < EPSILON
        \/ Abs(r.origin.y) < 2000 * Abs(r.direction.y) }

Sphere_call ==
    /\ op = "idle"
    /\ \E s \in Spheres, o \in SphereOrigins, d \in SphereDirections :
          /\ op' = "Sphere_local_intersect"
          /\ args' = << s, Ray(o, d) >>
          /\ res' = Sphere_local_intersect(s, Ray(o, d))
    /\ UNCHANGED <<renderVars, idVars>>

Plane_call ==
    /\ op = "idle"
    /\ \E r \in PlaneRays :
          /\ op' = "Plane_local_intersect"
          /\ args' = << Plane_new(0), r >>
          /\ res' = Plane_local_intersect(Plane_new(0), r)
    /\ UNCHANGED <<renderVars, idVars>>

ShapeNext == Sphere_call \/ Plane_call \/ Return

SpecShape == BenchInit /\ [][ShapeNext]_vars

(* Material::lighting *)

LightingMaterials ==
    { Material_new,
      [Material_new EXCEPT !.pattern = Stripe(WHITE, BLACK, Mat4_identity)],
      [Material_new EXCEPT
          !.color = color(Tenths(8), Tenths(10), Tenths(6)),
          !.ambient = Tenths(3), !.diffuse = Tenths(7),
          !.specular = Tenths(2), !.shininess = 10] }

LightingLights ==
    { Light(Vec3(0, 0, -Num(10)), WHITE),
      Light(Vec3(0, Num(10), -Num(10)), WHITE),
      Light(Vec3(0, 0, Num(10)), color(Tenths(5), Tenths(5), Tenths(10))) }

LightingPoints == { Vec3(0, 0, 0), Vec3(Tenths(9), 0, 0), Vec3(Tenths(11), 0, 0) }

LightingEyes ==
    { Vec3(0, 0, -Num(1)), Vec3(0, 707106, -707106), Vec3(0, -707106, -707106) }

LightingNormals == { Vec3(0, 0, -Num(1)), Vec3(0, Num(1), 0) }

Lighting_call ==
    /\ op = "idle"
    /\ \E m \in LightingMaterials, l \in LightingLights, p \in LightingPoints,
          e \in LightingEyes, n \in LightingNormals, s \in BOOLEAN :
          /\ op' = "lighting"
          /\ args' = << m, Sphere_new(0), l, p, e, n, s >>
          /\ res' = lighting(m, Sphere_new(0), l, p, e, n, s)
    /\ UNCHANGED <<renderVars, idVars>>

LightingNext == Lighting_call \/ Return

SpecLighting == BenchInit /\ [][LightingNext]_vars

(* Mat4::inverse *)

ScaleFactors == { 0, 20000, Tenths(5), Num(1), -Num(2) }

Angles == { 0, QuarterPi, HalfPi, Pi }

\* scalings of translations (the determinant is the product of the factors),
\* shears and rotations of them, and two matrices of rank 3 or nearly so
Matrices ==
    { scale(translate(Mat4_identity, tx, 0, Num(1)), sx, sy, sz) :
        tx \in {0, Num(3)}, sx \in ScaleFactors, sy \in ScaleFactors,
        sz \in ScaleFactors }
    \cup { shear(scale(translate(Mat4_identity, Num(3), 0, Num(1)),
                        sx, Num(1), sz),
                  Num(1), 0, Tenths(5), 0, 0, Num(2)) :
             sx \in ScaleFactors, sz \in ScaleFactors }
    \cup { rotate_x(rotate_z(translate(Mat4_identity, tx, 0, Num(1)), a), b) :
             tx \in {0, Num(3)}, a \in Angles, b \in Angles }
    \cup { rotate_y(scale(Mat4_identity, Num(1), Tenths(5), -Num(2)), a) :
             a \in Angles }
    \cup { << Num(1), Num(2), 0, 0,
              Num(2), Num(4), 0, 0,
              0, 0, Num(1), 0,
              0, 0, 0, Num(1) >>,
           << Num(1), Num(2), 0, 0,
              Num(2), 4000004, 0, 0,
              0, 0, Num(1), 0,
              0, 0, 0, Num(1) >> }

Inverse_call ==
    /\ op = "idle"
    /\ \E m \in Matrices :
          /\ op' = "inverse"
          /\ args' = << m >>
          /\ res' = Mat4_inverse(m)
    /\ UNCHANGED <<renderVars, idVars>>

MatNext == Inverse_call \/ Return

SpecMat == BenchInit /\ [][MatNext]_vars

(* The builder transforms of Mat4, each followed by the product with a point *)

\* the matrices the builders are called on
BuilderSelves ==
    { Mat4_identity,
      scale(Mat4_identity, Num(2), Num(3), Tenths(5)),
      translate(Mat4_identity, Num(1), -Num(2), Num(3)),
      rotate_z(Mat4_identity, HalfPi) }

BuilderPoints == { Vec3(Num(1), 0, Num(1)), Vec3(Num(2), Num(3), Num(4)),
                   Vec3(-Num(3), Num(4), Num(5)) }

Translations == { Vec3(Num(10), Num(5), Num(7)), Vec3(Num(5), -Num(3), Num(2)) }

Scalings == { Vec3(Num(5), Num(5), Num(5)), Vec3(Num(2), Num(3), Num(4)),
              Vec3(-Num(1), Num(1), Tenths(5)) }

Turns == { QuarterPi, HalfPi }

\* x_y, x_z, y_x, y_z, z_x, z_y
Shears == { << Num(1), 0, 0, 0, 0, 0 >>, << 0, 0, 0, Num(1), 0, 0 >>,
            << 0, Num(2), Tenths(5), 0, Num(1), -Num(1) >> }

Translate_call ==
    /\ op = "idle"
    /\ \E m \in BuilderSelves, d \in Translations, p \in BuilderPoints :
          /\ op' = "translate"
          /\ args' = << m, d, p >>
          /\ res' = Mat4_mul_point(translate(m, d.x, d.y, d.z), p)
    /\ UNCHANGED <<renderVars, idVars>>

Scale_call ==
    /\ op = "idle"
    /\ \E m \in BuilderSelves, s \in Scalings, p \in BuilderPoints :
          /\ op' = "scale"
          /\ args' = << m, s, p >>
          /\ res' = Mat4_mul_point(scale(m, s.x, s.y, s.z), p)
    /\ UNCHANGED <<renderVars, idVars>>

RotateX_call ==
    /\ op = "idle"
    /\ \E m \in BuilderSelves, rad \in Turns, p \in BuilderPoints :
          /\ op' = "rotate_x"
          /\ args' = << m, rad, p >>
          /\ res' = Mat4_mul_point(rotate_x(m, rad), p)
    /\ UNCHANGED <<renderVars, idVars>>

RotateY_call ==
    /\ op = "idle"
    /\ \E m \in BuilderSelves, rad \in Turns, p \in BuilderPoints :
          /\ op' = "rotate_y"
          /\ args' = << m, rad, p >>
          /\ res' = Mat4_mul_point(rotate_y(m, rad), p)
    /\ UNCHANGED <<renderVars, idVars>>

RotateZ_call ==
    /\ op = "idle"
    /\ \E m \in BuilderSelves, rad \in Turns, p \in BuilderPoints :
          /\ op' = "rotate_z"
          /\ args' = << m, rad, p >>
          /\ res' = Mat4_mul_point(rotate_z(m, rad), p)
    /\ UNCHANGED <<renderVars, idVars>>

Shear_call ==
    /\ op = "idle"
    /\ \E m \in BuilderSelves, s \in Shears, p \in BuilderPoints :
          /\ op' = "shear"
          /\ args' = << m, s, p >>
          /\ res' = Mat4_mul_point(shear(m, s[1], s[2], s[3], s[4], s[5], s[6]), p)
    /\ UNCHANGED <<renderVars, idVars>>

\* Mat4::identity().scale(..).translate(..) * point
Chain_call ==
    /\ op = "idle"
    /\ \E s \in Scalings, d \in Translations, p \in BuilderPoints :
          /\ op' = "chain"
          /\ args' = << s, d, p >>
          /\ res' = Mat4_mul_point(
                        translate(scale(Mat4_identity, s.x, s.y, s.z),
                                  d.x, d.y, d.z), p)
    /\ UNCHANGED <<renderVars, idVars>>

TransformNext ==
    \/ Translate_call \/ Scale_call \/ RotateX_call \/ RotateY_call
    \/ RotateZ_call \/ Shear_call \/ Chain_call \/ Return

SpecTransform == BenchInit /\ [][TransformNext]_vars

(* World::intersect, World::is_shadowed, World::shade_hit, World::color_at *)

WorldOrigins ==
    { Vec3(0, 0, -Num(5)), Vec3(0, 0, -999996), Vec3(0, 0, 0), Vec3(0, 0, Num(5)),
      Vec3(-Num(5), 0, 0), Vec3(0, Num(2), -Num(5)), Vec3(0, Tenths(5), -Num(5)) }

WorldDirections ==
    { Vec3(0, 0, Num(1)), Vec3(0, 0, -Num(1)), Vec3(Num(1), 0, 0),
      Vec3(0, -Tenths(6), Tenths(8)), Vec3(0, Tenths(6), Tenths(8)) }

WorldRays == { Ray(o, d) : o \in WorldOrigins, d \in WorldDirections }

ShadowPoints ==
    { Vec3(0, 0, 0), Vec3(-Num(2), Num(2), -Num(2)), Vec3(Num(2), -Num(2), Num(2)),
      Vec3(Num(3), -999996, 0), Vec3(-Num(1), Num(5), Num(2)), Vec3(0, -Num(2), 0),
      Vec3(Num(3), -Num(1), 0) }

Intersect_call ==
    /\ op = "idle"
    /\ \E w \in Worlds, r \in WorldRays :
          /\ op' = "intersect"
          /\ args' = << w, r >>
          /\ res' = World_intersect(w, r)
    /\ UNCHANGED <<renderVars, idVars>>

Shadowed_call ==
    /\ op = "idle"
    /\ \E w \in Worlds, p \in ShadowPoints :
          /\ op' = "is_shadowed"
          /\ args' = << w, p >>
          /\ res' = is_shadowed(w, p)
    /\ UNCHANGED <<renderVars, idVars>>

\* shade_hit on the computation prepared for the hit of a ray, as color_at
\* calls it
ShadeHit_call ==
    /\ op = "idle"
    /\ \E w \in Worlds, r \in WorldRays :
          \E h \in { hit(World_intersect(w, r)) } :
             /\ h # << >>
             /\ \E comps \in { prepare(h[1], r) } :
                   /\ op' = "shade_hit"
                   /\ args' = << w, comps >>
                   /\ res' = shade_hit(w, comps)
    /\ UNCHANGED <<renderVars, idVars>>

ColorAt_call ==
    /\ op = "idle"
    /\ \E w \in Worlds, r \in WorldRays :
          /\ op' = "color_at"
          /\ args' = << w, r >>
          /\ res' = color_at(w, r)
    /\ UNCHANGED <<renderVars, idVars>>

WorldNext ==
    Intersect_call \/ Shadowed_call \/ ShadeHit_call \/ ColorAt_call \/ Return

SpecWorld == BenchInit /\ [][WorldNext]_vars


(* The shape constructors, called by threads in any interleaving *)

\* the number of shapes constructed in one run
MaxShapes == 3

\* AtomicUsize::fetch_add read as a plain load: the counter is not advanced
fetch_add_mutant(counter, val) == [old |-> counter, new |-> counter]

\* AtomicUsize::fetch_add(val, Ordering::Relaxed): one atomic step that
\* returns the previous value and stores the sum
fetch_add(counter, val) == [old |-> counter, new |-> counter + val]

\* the constructions begun: the shapes built and the ids fetched for shapes
\* not yet built
Begun == Len(constructed) + Cardinality({t \in Threads : threads[t].pc = "build"})

\* `id: OBJECT_COUNTER.fetch_add(1, Ordering::Relaxed)`, the first field of
\* the struct expression; the other fields are evaluated afterwards
Fetch(t, via, kind, transform) ==
    /\ threads[t].pc = "idle"
    /\ Begun < MaxShapes
    /\ OBJECT_COUNTER' = fetch_add(OBJECT_COUNTER, 1).new
    /\ threads' = [threads EXCEPT ![t] =
                      [pc |-> "build", id |-> fetch_add(OBJECT_COUNTER, 1).old,
                       via |-> via, kind |-> kind, transform |-> transform]]
    /\ UNCHANGED <<benchVars, renderVars, constructed, live>>

Sphere_new_fetch == \E t \in Threads : Fetch(t, "Sphere::new", "Sphere", Mat4_identity)

Sphere_default_fetch ==
    \E t \in Threads : Fetch(t, "Sphere::default", "Sphere", Mat4_identity)

\* Plane::new is Self::default()
Plane_new_fetch == \E t \in Threads : Fetch(t, "Plane::new", "Plane", Mat4_identity)

Plane_default_fetch ==
    \E t \in Threads : Fetch(t, "Plane::default", "Plane", Mat4_identity)

\* World::default: Sphere { transform: .., ..Default::default() } calls
\* default once and keeps its id
Sphere_update_fetch ==
    \E t \in Threads :
        Fetch(t, "Sphere { .. }", "Sphere",
              scale(Mat4_identity, Tenths(5), Tenths(5), Tenths(5)))

\* the rest of the struct expression: the shape exists from here on
Build ==
    \E t \in Threads :
        /\ threads[t].pc = "build"
        /\ constructed' =
              Append(constructed,
                     [shape |-> Shape(threads[t].id, threads[t].kind,
                                      threads[t].transform, Material_new),
                      thread |-> t, via |-> threads[t].via])
        /\ live' = live \cup {Shape(threads[t].id, threads[t].kind,
                                    threads[t].transform, Material_new)}
        /\ threads' = [threads EXCEPT ![t] = [pc |-> "idle"]]
        /\ UNCHANGED <<benchVars, renderVars, OBJECT_COUNTER>>

\* a drop that gives the id back to the counter
counter_after_drop_mutant(counter) == counter - 1

\* Sphere and Plane have no impl Drop: dropping a shape leaves the counter
counter_after_drop(counter) == counter

Drop ==
    \E s \in live :
        /\ live' = live \ {s}
        /\ OBJECT_COUNTER' = counter_after_drop(OBJECT_COUNTER)
        /\ UNCHANGED <<benchVars, renderVars, threads, constructed>>

IdNext ==
    \/ Sphere_new_fetch \/ Sphere_default_fetch \/ Plane_new_fetch
    \/ Plane_default_fetch \/ Sphere_update_fetch \/ Build \/ Drop

SpecIds == BenchInit /\ [][IdNext]_vars

(* Equality of shapes *)

EqTransforms ==
    { Mat4_identity, scale(Mat4_identity, Tenths(5), Tenths(5), Tenths(5)) }

EqMaterials ==
    { Material_new,
      [Material_new EXCEPT !.ambient = Num(1)],
      [Material_new EXCEPT !.pattern = Stripe(WHITE, BLACK, Mat4_identity)] }

\* the fields of Sphere and Plane are public: any id with any contents
EqShapes ==
    { Shape(id, kind, tr, mat) :
        id \in {0, 1}, kind \in {"Sphere", "Plane"}, tr \in EqTransforms,
        mat \in EqMaterials }

\* two shapes behind &dyn Shape, of the same variant or not
Shape_eq_call ==
    /\ op = "idle"
    /\ \E a \in EqShapes, b \in EqShapes :
          /\ op' = "Shape_eq"
          /\ args' = << a, b >>
          /\ res' = Shape_eq(a, b)
    /\ UNCHANGED <<renderVars, idVars>>

Sphere_eq_call ==
    /\ op = "idle"
    /\ \E a \in EqShapes, b \in EqShapes :
          /\ a.kind = "Sphere" /\ b.kind = "Sphere"
          /\ op' = "Sphere_eq"
          /\ args' = << a, b >>
          /\ res' = Sphere_eq(a, b)
    /\ UNCHANGED <<renderVars, idVars>>

Plane_eq_call ==
    /\ op = "idle"
    /\ \E a \in EqShapes, b \in EqShapes :
          /\ a.kind = "Plane" /\ b.kind = "Plane"
          /\ op' = "Plane_eq"
          /\ args' = << a, b >>
          /\ res' = Plane_eq(a, b)
    /\ UNCHANGED <<renderVars, idVars>>

EqNext == Shape_eq_call \/ Sphere_eq_call \/ Plane_eq_call \/ Return

SpecEq == BenchInit /\ [][EqNext]_vars

(* Canvas::to_ppm *)

\* the widest canvas written
MaxWidth == 7

\* channels that print with three, two and one digits, and ones outside
\* 0.0 .. 1.0 on both sides
PpmColors ==
    { color(Num(1), Tenths(8), Tenths(6)),
      color(Tenths(1), 0, Tenths(15)),
      color(-1000, Tenths(5), -Tenths(5)) }

Reverse(s) == [i \in 1..Len(s) |-> s[Len(s) + 1 - i]]

\* rows of one colour up to a pixel and another from there on
PpmRows ==
    { [i \in 1..w |-> IF i <= k THEN c1 ELSE c2] :
        w \in 0..MaxWidth, k \in 0..MaxWidth, c1 \in PpmColors, c2 \in PpmColors }

\* canvases of height 0, of one row, and of two rows (the second the first
\* reversed), as Canvas::new and IndexMut build them
PpmCanvases ==
    { [width |-> w, height |-> 0, array |-> << >>] : w \in 0..MaxWidth }
    \cup { [width |-> Len(row), height |-> 1, array |-> row] : row \in PpmRows }
    \cup { [width |-> Len(row), height |-> 2, array |-> row \o Reverse(row)] :
             row \in PpmRows }

ToPpm_call ==
    /\ op = "idle"
    /\ \E canvas \in PpmCanvases :
          /\ op' = "to_ppm"
          /\ args' = << canvas >>
          /\ res' = to_ppm(canvas)
    /\ UNCHANGED <<renderVars, idVars>>

PpmNext == ToPpm_call \/ Return

SpecPpm == BenchInit /\ [][PpmNext]_vars

(* impl Index / IndexMut for Mat4, Mat3, Mat2 and Canvas *)

\* the largest row, column, x or y asked for
MaxIndex == 5

\* the access itself has not started
Panic == [panic |-> TRUE, place |-> {}]

\* elements[i] of an array or Vec of len elements: the place it refers to,
\* or the panic of the bounds check
slice_index(len, i) ==
    IF i >= len THEN Panic ELSE [panic |-> FALSE, place |-> {i + 1}]

Mat4_index_mutant(self, index) ==
    IF index[1] >= 4 /\ index[2] >= 4 THEN Panic
    ELSE slice_index(Len(self), index[1] * 4 + index[2])

\* index and index_mut of Mat4: the same check, the same element
Mat4_index(self, index) ==
    IF index[1] >= 4 \/ index[2] >= 4 THEN Panic
    ELSE slice_index(Len(self), index[1] * 4 + index[2])

Mat3_index(self, index) ==
    IF index[1] >= 3 \/ index[2] >= 3 THEN Panic
    ELSE slice_index(Len(self), index[1] * 3 + index[2])

Mat2_index(self, index) ==
    IF index[1] >= 2 \/ index[2] >= 2 THEN Panic
    ELSE slice_index(Len(self), index[1] * 2 + index[2])

\* the cell taken as y + x, the width left out
Canvas_index_mutant(self, index) ==
    IF index[1] < self.width /\ index[2] < self.height
    THEN slice_index(Len(self.array), index[2] + index[1])
    ELSE Panic

\* index and index_mut of Canvas; index is (x, y)
Canvas_index(self, index) ==
    IF index[1] < self.width /\ index[2] < self.height
    THEN slice_index(Len(self.array), index[2] * self.width + index[1])
    ELSE Panic

\* reading through the reference index returns: what was read, the elements
\* after it
read_at(elements, at) ==
    [panic |-> at.panic, place |-> at.place,
     output |-> { elements[p] : p \in at.place },
     after |-> elements]

\* assigning through the reference index_mut returns
write_at(elements, at, value) ==
    [panic |-> at.panic, place |-> at.place,
     output |-> {},
     after |-> [p \in 1..Len(elements) |->
                   IF p \in at.place THEN value ELSE elements[p]]]

Indexes == (0..MaxIndex) \X (0..MaxIndex)

IndexMat4s == { Mat4_identity, translate(Mat4_identity, Num(1), Num(2), Num(3)) }
IndexMat3s == { Mat4_submatrix(m, 0, 0) : m \in IndexMat4s }
IndexMat2s == { Mat3_submatrix(m, 1, 1) : m \in IndexMat3s }
IndexCanvases ==
    { Canvas_set(Canvas_new(w, h), 0, 0, WHITE) : w \in 1..2, h \in 1..3 }
    \cup { Canvas_new(0, 0), Canvas_new(0, 2), Canvas_new(3, 0) }

Mat4_index_call ==
    /\ op = "idle"
    /\ \E self \in IndexMat4s, index \in Indexes :
          /\ op' = "Mat4_index"
          /\ args' = << self, index >>
          /\ res' = read_at(self, Mat4_index(self, index))
    /\ UNCHANGED <<renderVars, idVars>>

Mat4_index_mut_call ==
    /\ op = "idle"
    /\ \E self \in IndexMat4s, index \in Indexes :
          /\ op' = "Mat4_index_mut"
          /\ args' = << self, index >>
          /\ res' = write_at(self, Mat4_index(self, index), Num(7))
    /\ UNCHANGED <<renderVars, idVars>>

Mat3_index_call ==
    /\ op = "idle"
    /\ \E self \in IndexMat3s, index \in Indexes :
          /\ op' = "Mat3_index"
          /\ args' = << self, index >>
          /\ res' = read_at(self, Mat3_index(self, index))
    /\ UNCHANGED <<renderVars, idVars>>

Mat3_index_mut_call ==
    /\ op = "idle"
    /\ \E self \in IndexMat3s, index \in Indexes :
          /\ op' = "Mat3_index_mut"
          /\ args' = << self, index >>
          /\ res' = write_at(self, Mat3_index(self, index), Num(7))
    /\ UNCHANGED <<renderVars, idVars>>

Mat2_index_call ==
    /\ op = "idle"
    /\ \E self \in IndexMat2s, index \in Indexes :
          /\ op' = "Mat2_index"
          /\ args' = << self, index >>
          /\ res' = read_at(self, Mat2_index(self, index))
    /\ UNCHANGED <<renderVars, idVars>>

Mat2_index_mut_call ==
    /\ op = "idle"
    /\ \E self \in IndexMat2s, index \in Indexes :
          /\ op' = "Mat2_index_mut"
          /\ args' = << self, index >>
          /\ res' = write_at(self, Mat2_index(self, index), Num(7))
    /\ UNCHANGED <<renderVars, idVars>>

Canvas_index_call ==
    /\ op = "idle"
    /\ \E self \in IndexCanvases, index \in Indexes :
          /\ op' = "Canvas_index"
          /\ args' = << self, index >>
          /\ res' = read_at(self.array, Canvas_index(self, index))
    /\ UNCHANGED <<renderVars, idVars>>

Canvas_index_mut_call ==
    /\ op = "idle"
    /\ \E self \in IndexCanvases, index \in Indexes :
          /\ op' = "Canvas_index_mut"
          /\ args' = << self, index >>
          /\ res' = write_at(self.array, Canvas_index(self, index), color(Num(1), 0, 0))
    /\ UNCHANGED <<renderVars, idVars>>

IndexNext ==
    \/ Mat4_index_call \/ Mat4_index_mut_call
    \/ Mat3_index_call \/ Mat3_index_mut_call
    \/ Mat2_index_call \/ Mat2_index_mut_call
    \/ Canvas_index_call \/ Canvas_index_mut_call
    \/ Return

SpecIndex == BenchInit /\ [][IndexNext]_vars

(* impl From<&[f64]> for Mat4, Mat3 and Mat2, and every function that     *)
(* returns a matrix                                                        *)

\* the longest slice a matrix is made from
MaxData == 17

\* a matrix made of whatever it is given
Mat4_from_mutant(elements) == [panic |-> FALSE, mat |-> elements]

\* Mat4::from(&[f64]): panics unless there are 16 elements
Mat4_from(elements) ==
    IF Len(elements) # 16 THEN [panic |-> TRUE, mat |-> << >>]
    ELSE [panic |-> FALSE, mat |-> elements]

Mat3_from(elements) ==
    IF Len(elements) # 9 THEN [panic |-> TRUE, mat |-> << >>]
    ELSE [panic |-> FALSE, mat |-> elements]

Mat2_from(elements) ==
    IF Len(elements) # 4 THEN [panic |-> TRUE, mat |-> << >>]
    ELSE [panic |-> FALSE, mat |-> elements]

Mat4_zero == [i \in 1..16 |-> 0]

\* the places of the n * n elements (r, c) with r # row and c # col, in the
\* order the loops of submatrix push them
pushed(n, row, col) ==
    SelectSeq([i \in 1..(n * n) |-> i],
              LAMBDA i : ((i - 1) \div n) # row /\ ((i - 1) % n) # col)

\* Mat4::submatrix for any row and col: Mat3::from of the elements pushed
Mat4_submatrix_any(self, row, col) ==
    Mat3_from([k \in 1..Len(pushed(4, row, col)) |-> self[pushed(4, row, col)[k]]])

\* Mat3::submatrix for any row and col
Mat3_submatrix_any(self, row, col) ==
    Mat2_from([k \in 1..Len(pushed(3, row, col)) |-> self[pushed(3, row, col)[k]]])

\* slices of every length up to MaxData
Datas == { [i \in 1..n |-> Num(i)] : n \in 0..MaxData }

\* a call of a function that returns a matrix, or panics
Yields(name, arguments, outcome) ==
    /\ op = "idle"
    /\ op' = name /\ args' = arguments /\ res' = outcome
    /\ UNCHANGED <<renderVars, idVars>>

Mat4_from_call == \E d \in Datas : Yields("Mat4_from", << d >>, Mat4_from(d))
Mat3_from_call == \E d \in Datas : Yields("Mat3_from", << d >>, Mat3_from(d))
Mat2_from_call == \E d \in Datas : Yields("Mat2_from", << d >>, Mat2_from(d))

Mat4_submatrix_call ==
    \E m \in IndexMat4s, row \in 0..MaxIndex, col \in 0..MaxIndex :
        Yields("Mat4_submatrix", << m, row, col >>, Mat4_submatrix_any(m, row, col))

Mat3_submatrix_call ==
    \E m \in IndexMat3s, row \in 0..MaxIndex, col \in 0..MaxIndex :
        Yields("Mat3_submatrix", << m, row, col >>, Mat3_submatrix_any(m, row, col))

Mat4_zero_call == Yields("Mat4_zero", << >>, Mat4_from(Mat4_zero))

Mat4_identity_call == Yields("Mat4_identity", << >>, Mat4_from(Mat4_identity))

Mat4_transpose_call ==
    \E m \in BuilderSelves :
        Yields("Mat4_transpose", << m >>, [panic |-> FALSE, mat |-> Mat4_transpose(m)])

Mat4_mul_call ==
    \E a \in BuilderSelves, b \in BuilderSelves :
        Yields("Mat4_mul", << a, b >>, [panic |-> FALSE, mat |-> Mat4_mul(a, b)])

Mat4_inverse_call ==
    \E m \in BuilderSelves \cup { Mat4_zero } :
        Yields("Mat4_inverse", << m >>, Mat4_inverse(m))

Mat4_translate_call ==
    \E m \in BuilderSelves, d \in Translations :
        Yields("Mat4_translate", << m, d >>,
               [panic |-> FALSE, mat |-> translate(m, d.x, d.y, d.z)])

Mat4_scale_call ==
    \E m \in BuilderSelves, s \in Scalings :
        Yields("Mat4_scale", << m, s >>,
               [panic |-> FALSE, mat |-> scale(m, s.x, s.y, s.z)])

Mat4_rotate_call ==
    \E m \in BuilderSelves, rad \in Turns :
        \/ Yields("Mat4_rotate_x", << m, rad >>, [panic |-> FALSE, mat |-> rotate_x(m, rad)])
        \/ Yields("Mat4_rotate_y", << m, rad >>, [panic |-> FALSE, mat |-> rotate_y(m, rad)])
        \/ Yields("Mat4_rotate_z", << m, rad >>, [panic |-> FALSE, mat |-> rotate_z(m, rad)])

Mat4_shear_call ==
    \E m \in BuilderSelves, s \in Shears :
        Yields("Mat4_shear", << m, s >>,
               [panic |-> FALSE, mat |-> shear(m, s[1], s[2], s[3], s[4], s[5], s[6])])

SizeNext ==
    \/ Mat4_from_call \/ Mat3_from_call \/ Mat2_from_call
    \/ Mat4_submatrix_call \/ Mat3_submatrix_call
    \/ Mat4_zero_call \/ Mat4_identity_call \/ Mat4_transpose_call
    \/ Mat4_mul_call \/ Mat4_inverse_call
    \/ Mat4_translate_call \/ Mat4_scale_call \/ Mat4_rotate_call
    \/ Mat4_shear_call
    \/ Return

SpecSize == BenchInit /\ [][SizeNext]_vars

(* Vector::normalize *)

\* components: zero, one below EPSILON, and whole numbers of either sign
NormalizeComponents == { 0, 5, -Num(1), Num(1), Num(2), Num(3), Num(4) }

NormalizeVectors ==
    { Vec3(a, b, c) : a \in NormalizeComponents, b \in NormalizeComponents,
                      c \in NormalizeComponents }

Normalize_call ==
    /\ op = "idle"
    /\ \E v \in NormalizeVectors :
          /\ op' = "normalize"
          /\ args' = << v >>
          /\ res' = normalize(v)
    /\ UNCHANGED <<renderVars, idVars>>

VectorNext == Normalize_call \/ Return

SpecVector == BenchInit /\ [][VectorNext]_vars

(* The equality comparisons of Tuple, Point, Vector, Color and the matrices *)

\* tuple.rs: a Tuple is [x, y, z, w]
Tuple(a, b, c, d) == [x |-> a, y |-> b, z |-> c, w |-> d]

\* Tuple (derive PartialEq): field by field with == of f64
Tuple_eq(self, other) ==
    self.x = other.x /\ self.y = other.y /\ self.z = other.z /\ self.w = other.w

Mat3_eq(a, b) == \A i \in 1..9 : is_equal(a[i], b[i])

Mat2_eq(a, b) == \A i \in 1..4 : is_equal(a[i], b[i])

\* differences around EPSILON, in either sense
Offsets == { 0, 1, EPSILON - 1, EPSILON, EPSILON + 1, -1, 1 - EPSILON, -EPSILON }

\* m with offset d added to element i
Nudged(m, i, d) == [m EXCEPT ![i] = @ + d]

Tuple_eq_call ==
    /\ op = "idle"
    /\ \E d \in Offsets, e \in Offsets :
          /\ op' = "Tuple_eq"
          /\ args' = << Tuple(Num(1), Tenths(5), 0, Num(1)),
                        Tuple(Num(1) + d, Tenths(5), e, Num(1)) >>
          /\ res' = Tuple_eq(args'[1], args'[2])
    /\ UNCHANGED <<renderVars, idVars>>

Point_eq_call ==
    /\ op = "idle"
    /\ \E d \in Offsets, e \in Offsets :
          /\ op' = "Point_eq"
          /\ args' = << Vec3(Num(4), -Num(4), Num(3)), Vec3(Num(4) + d, -Num(4), Num(3) + e) >>
          /\ res' = Vec3_eq(args'[1], args'[2])
    /\ UNCHANGED <<renderVars, idVars>>

Vector_eq_call ==
    /\ op = "idle"
    /\ \E d \in Offsets, e \in Offsets :
          /\ op' = "Vector_eq"
          /\ args' = << Vec3(0, Num(1), -Tenths(5)), Vec3(d, Num(1) + e, -Tenths(5)) >>
          /\ res' = Vec3_eq(args'[1], args'[2])
    /\ UNCHANGED <<renderVars, idVars>>

Color_eq_call ==
    /\ op = "idle"
    /\ \E d \in Offsets, e \in Offsets :
          /\ op' = "Color_eq"
          /\ args' = << color(Tenths(9), Tenths(6), Tenths(75)),
                        color(Tenths(9), Tenths(6) + d, Tenths(75) + e) >>
          /\ res' = Color_eq(args'[1], args'[2])
    /\ UNCHANGED <<renderVars, idVars>>

Mat4_eq_call ==
    /\ op = "idle"
    /\ \E m \in IndexMat4s, i \in {1, 8, 16}, d \in Offsets :
          /\ op' = "Mat4_eq"
          /\ args' = << m, Nudged(m, i, d) >>
          /\ res' = Mat4_eq(m, Nudged(m, i, d))
    /\ UNCHANGED <<renderVars, idVars>>

Mat3_eq_call ==
    /\ op = "idle"
    /\ \E m \in IndexMat3s, i \in {1, 9}, d \in Offsets :
          /\ op' = "Mat3_eq"
          /\ args' = << m, Nudged(m, i, d) >>
          /\ res' = Mat3_eq(m, Nudged(m, i, d))
    /\ UNCHANGED <<renderVars, idVars>>

Mat2_eq_call ==
    /\ op = "idle"
    /\ \E m \in IndexMat2s, i \in {1, 4}, d \in Offsets :
          /\ op' = "Mat2_eq"
          /\ args' = << m, Nudged(m, i, d) >>
          /\ res' = Mat2_eq(m, Nudged(m, i, d))
    /\ UNCHANGED <<renderVars, idVars>>

CompareNext ==
    \/ Tuple_eq_call \/ Point_eq_call \/ Vector_eq_call \/ Color_eq_call
    \/ Mat4_eq_call \/ Mat3_eq_call \/ Mat2_eq_call
    \/ Return

SpecCompare == BenchInit /\ [][CompareNext]_vars

(* Camera::new *)

\* the largest hsize and vsize of a camera made
MaxCamera == 10

\* the sizes whose ratios the fixed point holds exactly, as f64 holds every
\* ratio to 16 digits
CameraSizes == { n \in 1..MaxCamera : 1000 % n = 0 }

\* fields of view: pi/3, pi/2, 2 pi/3
Fovs == { 2 * (Pi \div 6), 2 * QuarterPi, 2 * (Pi \div 3) }

Camera_new_call ==
    /\ op = "idle"
    /\ \E hsize \in CameraSizes, vsize \in CameraSizes, field_of_view \in Fovs :
          /\ op' = "Camera_new"
          /\ args' = << hsize, vsize, field_of_view >>
          /\ res' = Camera_new(hsize, vsize, tan(FDiv(field_of_view, Num(2))))
    /\ UNCHANGED <<renderVars, idVars>>

CameraNext == Camera_new_call \/ Return

SpecCamera == BenchInit /\ [][CameraNext]_vars

(* Stripe::at *)

\* x on both sides of the integers from -3 to 3
StripeXs ==
    { -Tenths(25), -Num(2), -Tenths(11), -Num(1) - 1, -Num(1), -Tenths(1), -1, 0,
      Tenths(9), Num(1) - 1, Num(1), Tenths(15), Num(2), Tenths(25), Num(3) }

StripeYZs == { -Tenths(15), 0, Num(2) }

Stripe_at_call ==
    /\ op = "idle"
    /\ \E px \in StripeXs, py \in StripeYZs, pz \in StripeYZs :
          /\ op' = "Stripe_at"
          /\ args' = << Stripe(WHITE, BLACK, Mat4_identity), Vec3(px, py, pz) >>
          /\ res' = Stripe_at(args'[1], args'[2])
    /\ UNCHANGED <<renderVars, idVars>>

StripeNext == Stripe_at_call \/ Return

SpecStripe == BenchInit /\ [][StripeNext]_vars

(* Intersection::prepare *)

PrepareObjects ==
    { Sphere_new(0),
      [Sphere_new(1) EXCEPT !.transform = scale(Mat4_identity, Num(2), Num(2), Num(2))],
      Plane_new(2) }

PrepareRays ==
    { Ray(o, d) :
        o \in { Vec3(0, 0, -Num(5)), Vec3(0, 0, 0), Vec3(0, Num(1), -Num(3)),
                Vec3(Tenths(5), -Num(1), 0) },
        d \in { Vec3(0, 0, Num(1)), Vec3(0, -Num(1), 0), Vec3(0, Tenths(6), Tenths(8)) } }

PrepareTs == { Tenths(5), Num(1), Num(4), Num(6) }

Prepare_call ==
    /\ op = "idle"
    /\ \E object \in PrepareObjects, ray \in PrepareRays, t \in PrepareTs :
          /\ op' = "prepare"
          /\ args' = << Intersection(t, object), ray >>
          /\ res' = prepare(Intersection(t, object), ray)
    /\ UNCHANGED <<renderVars, idVars>>

PrepareNext == Prepare_call \/ Return

SpecPrepare == BenchInit /\ [][PrepareNext]_vars

(* pattern/*.rs: the patterns and their composites *)

\* a pattern of two colors, or of two patterns: Solid, Stripe, Gradient,
\* Ring, Checkers, RadialGradient and their Nested forms, and Blended
PatternOf(kind, a, b, transform) ==
    [kind |-> kind, a |-> a, b |-> b, transform |-> transform]

\* Perturb { pattern, transform, perlin }
Perturb_new(pattern, transform, perlin) ==
    [kind |-> "Perturb", pattern |-> pattern, transform |-> transform,
     perlin |-> perlin]

\* Perlin::get of the noise crate, which is not part of the sources: one of
\* two functions of the point with values in -1.0 .. 1.0
Perlin_get(perlin, point) ==
    CASE perlin = "flat" -> 0
      [] perlin = "ramp" -> FRem(point.x + point.y + point.z, Num(1))

CSub(a, b) == color(a.red - b.red, a.green - b.green, a.blue - b.blue)

\* (point.x.powf(2.0) + point.z.powf(2.0)).sqrt()
radius(point) == FSqrt(FMul(point.x, point.x) + FMul(point.z, point.z))

\* point.x.floor() % 2.0 is 0.0 within epsilon
stripe_even(point) == is_equal(FRem(FFloor(point.x), Num(2)), 0)

ring_even(point) == is_equal(FRem(FFloor(radius(point)), Num(2)), 0)

checkers_even(point) ==
    is_equal(FRem(FFloor(point.x) + FFloor(point.y) + FFloor(point.z), Num(2)), 0)

\* a + (b - a) * fraction
blend_from(a, b, fraction) == CAdd(a, CScale(CSub(b, a), fraction))

\* Perturb::at: the point moved by 0.2 * noise in each coordinate
perturbed(point, noise) ==
    Vec3(point.x + FMul(noise, Tenths(2)), point.y + FMul(noise, Tenths(2)),
         point.z + FMul(noise, Tenths(2)))

RECURSIVE Pattern_at(_, _)

\* the child asked in its own pattern space
child_at_mutant(child, point) ==
    Pattern_at(child, Mat4_mul_point(inv(child.transform), point))

\* self.a.at(point), self.b.at(point), self.pattern.at(point)
child_at(child, point) == Pattern_at(child, point)

\* Pattern::at of each implementation
Pattern_at(self, point) ==
    CASE self.kind = "Solid" -> self.a
      [] self.kind = "Stripe" -> IF stripe_even(point) THEN self.a ELSE self.b
      [] self.kind = "Ring" -> IF ring_even(point) THEN self.a ELSE self.b
      [] self.kind = "Checkers" -> IF checkers_even(point) THEN self.a ELSE self.b
      [] self.kind = "Gradient" ->
            blend_from(self.a, self.b, point.x - FFloor(point.x))
      [] self.kind = "RadialGradient" ->
            blend_from(self.a, self.b, radius(point) - FFloor(radius(point)))
      [] self.kind = "StripeNested" ->
            IF stripe_even(point) THEN child_at(self.a, point)
            ELSE child_at(self.b, point)
      [] self.kind = "RingNested" ->
            IF ring_even(point) THEN child_at(self.a, point)
            ELSE child_at(self.b, point)
      [] self.kind = "CheckersNested" ->
            IF checkers_even(point) THEN child_at(self.a, point)
            ELSE child_at(self.b, point)
      [] self.kind = "GradientNested" ->
            blend_from(child_at(self.a, point), child_at(self.b, point),
                       point.x - FFloor(point.x))
      [] self.kind = "RadialGradientNested" ->
            blend_from(child_at(self.a, point), child_at(self.b, point),
                       radius(point) - FFloor(radius(point)))
      [] self.kind = "Blended" ->
            CScale(CAdd(child_at(self.a, point), child_at(self.b, point)),
                   Tenths(5))
      [] self.kind = "Perturb" ->
            child_at(self.pattern, perturbed(point, Perlin_get(self.perlin, point)))

NestedKinds ==
    { "StripeNested", "RingNested", "CheckersNested", "GradientNested",
      "RadialGradientNested", "Blended" }

RED == color(Num(1), 0, 0)

\* the transforms a child is given
ChildTransforms ==
    { Mat4_identity, translate(Mat4_identity, Tenths(5), 0, 0),
      scale(Mat4_identity, Tenths(5), Num(2), Num(2)) }

\* the children, with the transform t
Children(t) ==
    { PatternOf("Stripe", WHITE, BLACK, t), PatternOf("Gradient", RED, WHITE, t),
      PatternOf("Checkers", BLACK, RED, t),
      PatternOf("StripeNested", PatternOf("Ring", WHITE, RED, t),
                PatternOf("Solid", BLACK, BLACK, t), t) }

PatternPoints ==
    { Vec3(Tenths(2), 0, 0), Vec3(Tenths(12), Tenths(5), -Tenths(7)),
      Vec3(-Tenths(3), Num(1), Tenths(16)) }

\* the child with every transform in it replaced by t
RECURSIVE Retransformed(_, _)
Retransformed(child, t) ==
    IF child.kind \in NestedKinds
    THEN PatternOf(child.kind, Retransformed(child.a, t), Retransformed(child.b, t), t)
    ELSE [child EXCEPT !.transform = t]

Nested_at_call ==
    /\ op = "idle"
    /\ \E kind \in NestedKinds, a \in Children(Mat4_identity),
          b \in Children(Mat4_identity), t \in ChildTransforms,
          point \in PatternPoints :
          /\ a # b
          /\ op' = "Pattern_at"
          /\ args' = << PatternOf(kind, a, b, Mat4_identity),
                        PatternOf(kind, Retransformed(a, t), Retransformed(b, t),
                                  Mat4_identity),
                        point >>
          /\ res' = << Pattern_at(args'[1], point), Pattern_at(args'[2], point) >>
    /\ UNCHANGED <<renderVars, idVars>>

Perturb_at_call ==
    /\ op = "idle"
    /\ \E a \in Children(Mat4_identity), t \in ChildTransforms,
          perlin \in { "flat", "ramp" }, point \in PatternPoints :
          /\ op' = "Pattern_at"
          /\ args' = << Perturb_new(a, Mat4_identity, perlin),
                        Perturb_new(Retransformed(a, t), Mat4_identity, perlin),
                        point >>
          /\ res' = << Pattern_at(args'[1], point), Pattern_at(args'[2], point) >>
    /\ UNCHANGED <<renderVars, idVars>>

PatternNext == Nested_at_call \/ Perturb_at_call \/ Return

SpecPattern == BenchInit /\ [][PatternNext]_vars

(* Canvas::new and writes through IndexMut, one after another; args holds   *)
(* for every pixel the color last written to it, res the number of writes   *)

\* the largest width and height of a canvas written to
MaxCanvas == 2

\* the most writes to one canvas
MaxWrites == 3

CanvasInit ==
    /\ op = "canvas" /\ args = << >> /\ res = 0
    /\ pc = "off"
    /\ world = World_empty
    /\ camera = Camera_new(1, 1, Tenths(2))
    /\ x = 0 /\ y = 0
    /\ image = Canvas_new(0, 0)
    /\ visited = << >>
    /\ tasks = << >>
    /\ IdInit

\* let mut canvas = Canvas::new(width, height)
Canvas_create ==
    /\ op = "canvas"
    /\ \E width \in 0..MaxCanvas, height \in 0..MaxCanvas :
          /\ image' = Canvas_new(width, height)
          /\ args' = [p \in (0..(width - 1)) \X (0..(height - 1)) |-> BLACK]
    /\ res' = 0
    /\ UNCHANGED <<op, pc, world, camera, x, y, visited, tasks, idVars>>

\* canvas[(x, y)] = c with (x, y) in bounds
Canvas_write ==
    /\ op = "canvas"
    /\ res < MaxWrites
    /\ \E index \in DOMAIN args, c \in { RED, WHITE } :
          /\ image' = [image EXCEPT
                          !.array = write_at(image.array, Canvas_index(image, index), c).after]
          /\ args' = [args EXCEPT ![index] = c]
    /\ res' = res + 1
    /\ UNCHANGED <<op, pc, world, camera, x, y, visited, tasks, idVars>>

CanvasNext == Canvas_create \/ Canvas_write

SpecCanvas == CanvasInit /\ [][CanvasNext]_vars

(* impl PartialEq for Material *)

MaterialPatterns ==
    { None_pattern, Stripe(WHITE, BLACK, Mat4_identity),
      Stripe(BLACK, RED, scale(Mat4_identity, Num(2), Num(2), Num(2))) }

Material_eq_call ==
    /\ op = "idle"
    /\ \E p \in MaterialPatterns, q \in MaterialPatterns, d \in Offsets,
          e \in Offsets, s \in { 200, 201 } :
          /\ op' = "Material_eq"
          /\ args' = << [Material_new EXCEPT !.pattern = p],
                        [Material_new EXCEPT
                            !.pattern = q, !.color.green = @ + d,
                            !.diffuse = @ + e, !.shininess = s] >>
          /\ res' = Material_eq(args'[1], args'[2])
    /\ UNCHANGED <<renderVars, idVars>>

MaterialNext == Material_eq_call \/ Return

SpecMaterial == BenchInit /\ [][MaterialNext]_vars
----------------------------------------------------------------------------
(* The properties                                                          *)

\* the least element of a non-empty set of numbers
Min(S) == CHOOSE i \in S : \A j \in S : i <= j

\* the positions of xs whose t satisfies Ok
Accepted(xs, Ok(_)) == { i \in 1..Len(xs) : Ok(xs[i].t) }

\* t is not negative
NonNegative(t) == t >= 0

\* t is zero within epsilon, or positive
EpsNonNegative(t) == t > -EPSILON

\* a and b hold the same elements, each as many times
IsPermutation(a, b) ==
    /\ Len(a) = Len(b)
    /\ \A i \in 1..Len(a) :
          Cardinality({ j \in 1..Len(a) : a[j] = a[i] })
          = Cardinality({ j \in 1..Len(b) : b[j] = a[i] })

(* Camera::render *)

\* pixel number i (from 1) of the row-major order of an hsize-wide image
RowMajor(i, hsize) == << (i - 1) % hsize, (i - 1) \div hsize >>

\* the pixels computed so far are the first ones of the row-major order, each
\* once, and each holds the color of its ray; the canvas has the camera's
\* size; render returns only after hsize * vsize pixel computations
C1_Safety ==
    /\ Len(visited) <= camera.hsize * camera.vsize
    /\ \A i \in 1..Len(visited) : visited[i] = RowMajor(i, camera.hsize)
    /\ pc # "start" =>
          /\ image.width = camera.hsize
          /\ image.height = camera.vsize
          /\ Len(image.array) = camera.hsize * camera.vsize
    /\ \A i \in 1..Len(visited) :
          Canvas_at(image, visited[i][1], visited[i][2])
          = color_at(world, ray_for_pixel(camera, visited[i][1], visited[i][2]))
    /\ pc = "done" => Len(visited) = camera.hsize * camera.vsize

\* C1: Camera::render visits every pixel (x, y) with 0 <= x < hsize and
\* 0 <= y < vsize exactly once, in row-major order, stores
\* world.color_at(ray_for_pixel(x, y)) in that pixel of an hsize-by-vsize
\* canvas, and terminates after hsize * vsize pixel computations.
C1_Render == [] C1_Safety /\ <>(pc = "done")

\* a two-by-two image of the default world is complete
C1_Witness ==
    /\ pc = "done"
    /\ world = World_default
    /\ camera.hsize = 2 /\ camera.vsize = 2
    /\ visited = << <<0, 0>>, <<1, 0>>, <<0, 1>>, <<1, 1>> >>
    /\ Canvas_at(image, 0, 0) # Canvas_at(image, 1, 0)
    /\ Canvas_at(image, 1, 0) # Canvas_at(image, 1, 1)

(* World::color_at *)

\* the color of the first intersection of xs whose t satisfies Ok, black when
\* there is none
ShadedFirst(w, r, xs, Ok(_)) ==
    IF Accepted(xs, Ok) = {} THEN BLACK
    ELSE shade_hit(w, prepare(xs[Min(Accepted(xs, Ok))], r))

FirstAccepted(xs, Ok(_)) ==
    IF Accepted(xs, Ok) = {} THEN << >> ELSE << xs[Min(Accepted(xs, Ok))] >>

C4_Intersect ==
    op = "intersect" =>
        /\ IsPermutation(res, collect(args[1].objects, args[2]))
        /\ \A i \in 1..(Len(res) - 1) : res[i].t <= res[i + 1].t

\* four intersections that the concatenation holds in another order
C4_Witness ==
    /\ op = "intersect"
    /\ Len(res) = 4
    /\ res # collect(args[1].objects, args[2])
    /\ res[1].t < res[2].t /\ res[2].t < res[3].t /\ res[3].t < res[4].t

(* World::is_shadowed *)

\* some intersection of xs has a t that satisfies Ok and is below distance
BlockedBefore(xs, distance, Ok(_)) ==
    \E i \in Accepted(xs, Ok) : xs[i].t < distance

\* the intersections of the ray cast from point p toward the light of w
ShadowRayHits(w, p) ==
    World_intersect(w, Ray(p, normalize(VSub(w.light.position, p))))

LitAt(w, comps, p) ==
    lighting(comps.object.material, comps.object, w.light, p, comps.eyev,
             comps.normal, is_shadowed(w, comps.over_point))

\* C6, amended: World::shade_hit uses over_point both as the argument of
\* is_shadowed and as the surface point handed to lighting (for the light
\* direction and the pattern lookup); the un-offset point is not used.
C6_ShadeHit ==
    op = "shade_hit" => res = LitAt(args[1], args[2], args[2].over_point)

\* a hit on a striped shape where the offset changes the color
C6_Witness ==
    /\ op = "shade_hit"
    /\ args[2].object.material.pattern.some
    /\ args[2].over_point # args[2].point
    /\ res # LitAt(args[1], args[2], args[2].point)

\* C6 as stated: the surface point handed to lighting is the un-offset point
C6_Original ==
    op = "shade_hit" => res = LitAt(args[1], args[2], args[2].point)

(* Material::lighting *)

\* base color * light intensity * ambient coefficient
AmbientTerm(m, object, light, point) ==
    CScale(CMul(IF m.pattern.some THEN at_object(m.pattern, object, point)
                ELSE m.color,
                light.intensity),
           m.ambient)

\* light_dir . normal
LightDotNormal(light, point, normal) ==
    dot(normalize(VSub(light.position, point)), normal)

\* C7: Material::lighting returns exactly the ambient term whenever in_shadow
\* is true or light_dir . normal < 0, whatever the eye vector, diffuse,
\* specular and shininess are.
C7_Lighting ==
    (op = "lighting" /\ (args[7] \/ LightDotNormal(args[3], args[4], args[6]) < 0))
        => res = AmbientTerm(args[1], args[2], args[3], args[4])

\* a surface that faces the light and the eye but is in shadow
C7_Witness ==
    /\ op = "lighting"
    /\ args[7]
    /\ LightDotNormal(args[3], args[4], args[6]) > 0
    /\ args[1].diffuse > 0
    /\ args[1].pattern.some
    /\ res = AmbientTerm(args[1], args[2], args[3], args[4])
    /\ res # BLACK

(* Sphere::local_intersect *)

\* C8: Sphere::local_intersect returns no intersection when the discriminant
\* is negative, exactly one when it is zero within epsilon (and not
\* negative), exactly two when it is larger, the first with t not greater
\* than the second; every returned intersection refers to the sphere.
C8_Sphere ==
    op = "Sphere_local_intersect" =>
        /\ Sphere_discriminant(args[2]) < 0 => Len(res) = 0
        /\ (Sphere_discriminant(args[2]) >= 0
            /\ Sphere_discriminant(args[2]) < EPSILON) => Len(res) = 1
        /\ Sphere_discriminant(args[2]) >= EPSILON =>
              (Len(res) = 2 /\ res[1].t <= res[2].t)
        /\ \A i \in 1..Len(res) : res[i].object = args[1]

\* a ray that grazes the sphere: the discriminant is positive but below
\* epsilon
C8_Witness ==
    /\ op = "Sphere_local_intersect"
    /\ Sphere_discriminant(args[2]) > 0
    /\ Sphere_discriminant(args[2]) < EPSILON
    /\ Len(res) = 1
    /\ res[1].object = args[1]

(* Plane::local_intersect *)

\* C9: Plane::local_intersect returns no intersection when
\* |ray.direction.y| < epsilon and otherwise exactly one, with
\* t = -origin.y / direction.y, whose object is the plane itself.
C9_Plane ==
    op = "Plane_local_intersect" =>
        IF Abs(args[2].direction.y) < EPSILON THEN res = << >>
        ELSE /\ Len(res) = 1
             /\ res[1].t = FDiv(-args[2].origin.y, args[2].direction.y)
             /\ res[1].object = args[1]

\* a plane behind the ray: one intersection, with negative t
C9_Witness ==
    /\ op = "Plane_local_intersect"
    /\ Abs(args[2].direction.y) = EPSILON
    /\ Len(res) = 1
    /\ res[1].t < 0

(* Mat4::inverse *)

Adjugate(m) == [i \in 1..16 |-> Mat4_cofactor(m, (i - 1) % 4, (i - 1) \div 4)]

\* d times the identity matrix
TimesIdentity(d) ==
    [i \in 1..16 |-> IF (i - 1) \div 4 = (i - 1) % 4 THEN d ELSE 0]

\* C11: for a matrix whose determinant has absolute value at least epsilon,
\* inverse returns a matrix, the matrix times it is the identity within
\* epsilon in every element, and the transposed matrix of cofactors times
\* the matrix is the determinant times the identity.
C11_MulByInverse ==
    (op = "inverse" /\ Abs(Mat4_determinant(args[1])) >= EPSILON) =>
        /\ ~res.panic
        /\ Mat4_eq(Mat4_mul(args[1], res.mat), Mat4_identity)
        /\ Mat4_eq(Mat4_mul(Adjugate(args[1]), args[1]),
                   TimesIdentity(Mat4_determinant(args[1])))

\* an inverse that is not symmetric, of a matrix with an entry off the diagonal
C11_Witness ==
    /\ op = "inverse"
    /\ ~res.panic
    /\ Mat4_at(args[1], 0, 1) # 0
    /\ res.mat # Mat4_transpose(res.mat)
    /\ Mat4_eq(Mat4_mul(args[1], res.mat), Mat4_identity)

\* C12: for a matrix that inverse accepts, the inverse of the transpose is
\* the transpose of the inverse, within epsilon in every element.
C12_InverseTranspose ==
    (op = "inverse" /\ ~res.panic) =>
        /\ ~Mat4_inverse(Mat4_transpose(args[1])).panic
        /\ Mat4_eq(Mat4_inverse(Mat4_transpose(args[1])).mat,
                   Mat4_transpose(res.mat))

\* a matrix that differs from its transpose, inverted
C12_Witness ==
    /\ op = "inverse"
    /\ ~res.panic
    /\ args[1] # Mat4_transpose(args[1])
    /\ Mat4_inverse(Mat4_transpose(args[1])).mat = Mat4_transpose(res.mat)

(* Mat4::translate, scale, rotate_x, rotate_y, rotate_z, shear *)

\* a point moved, stretched, turned and sheared, coordinate by coordinate
Translated(p, d) == Vec3(p.x + d.x, p.y + d.y, p.z + d.z)

Scaled(p, s) == Vec3(FMul(s.x, p.x), FMul(s.y, p.y), FMul(s.z, p.z))

TurnedX(p, rad) ==
    Vec3(p.x, FMul(cos(rad), p.y) - FMul(sin(rad), p.z),
         FMul(sin(rad), p.y) + FMul(cos(rad), p.z))

TurnedY(p, rad) ==
    Vec3(FMul(cos(rad), p.x) + FMul(sin(rad), p.z), p.y,
         FMul(cos(rad), p.z) - FMul(sin(rad), p.x))

TurnedZ(p, rad) ==
    Vec3(FMul(cos(rad), p.x) - FMul(sin(rad), p.y),
         FMul(sin(rad), p.x) + FMul(cos(rad), p.y), p.z)

Sheared(p, s) ==
    Vec3(p.x + FMul(s[1], p.y) + FMul(s[2], p.z),
         p.y + FMul(s[3], p.x) + FMul(s[4], p.z),
         p.z + FMul(s[5], p.x) + FMul(s[6], p.y))

\* the point that self alone sends args[3] to
BySelf == Mat4_mul_point(args[1], args[3])

\* C13: the matrix a builder transform returns sends a point to where the
\* transform sends the image of the point under self (the builder applies
\* last), so identity.scale(s).translate(d) scales a point and then
\* translates it.
C13_Builders ==
    /\ op = "translate" => Vec3_eq(res, Translated(BySelf, args[2]))
    /\ op = "scale" => Vec3_eq(res, Scaled(BySelf, args[2]))
    /\ op = "rotate_x" => Vec3_eq(res, TurnedX(BySelf, args[2]))
    /\ op = "rotate_y" => Vec3_eq(res, TurnedY(BySelf, args[2]))
    /\ op = "rotate_z" => Vec3_eq(res, TurnedZ(BySelf, args[2]))
    /\ op = "shear" => Vec3_eq(res, Sheared(BySelf, args[2]))
    /\ op = "chain" => Vec3_eq(res, Translated(Scaled(args[3], args[1]), args[2]))

\* a chain where scaling first and translating first give different points
C13_Witness ==
    /\ op = "chain"
    /\ res = Translated(Scaled(args[3], args[1]), args[2])
    /\ ~Vec3_eq(res, Scaled(Translated(args[3], args[2]), args[1]))

(* OBJECT_COUNTER and the constructors of Sphere and Plane *)

\* the ids of the shapes constructed so far, dropped or not
IdOf(i) == constructed[i].shape.id

\* C14: whatever the interleaving of the threads, no two constructed shapes
\* have the same id, of any variant and constructor, and the counter has
\* advanced by exactly one for every construction begun.
C14_UniqueIds ==
    /\ \A i, j \in 1..Len(constructed) : i # j => IdOf(i) # IdOf(j)
    /\ \A t, u \in Threads :
          (t # u /\ threads[t].pc = "build" /\ threads[u].pc = "build")
              => threads[t].id # threads[u].id
    /\ OBJECT_COUNTER = Begun

\* two threads inside constructors at once, and then shapes of both variants
\* built by different threads
C14_Witness ==
    /\ Len(constructed) = 3
    /\ constructed[1].thread # constructed[2].thread
    /\ constructed[1].shape.kind # constructed[2].shape.kind
    /\ IdOf(2) < IdOf(1)
    /\ constructed[3].via = "Sphere::default"

\* C15: within one thread every shape gets an id greater than the ids of the
\* shapes the thread constructed before, and an id handed out once, to a
\* shape since dropped or not, is not handed out again.
C15_Monotonic ==
    /\ \A i, j \in 1..Len(constructed) :
          (i < j /\ constructed[i].thread = constructed[j].thread)
              => IdOf(i) < IdOf(j)
    /\ \A t \in Threads : \A i \in 1..Len(constructed) :
          threads[t].pc = "build" => threads[t].id # IdOf(i)
    /\ \A t \in Threads : \A i \in 1..Len(constructed) :
          (threads[t].pc = "build" /\ constructed[i].thread = t)
              => IdOf(i) < threads[t].id

\* a thread that constructs again after its first shape was dropped and
\* another thread constructed in between, one shape by struct update
C15_Witness ==
    /\ Len(constructed) = 3
    /\ constructed[1].thread = constructed[3].thread
    /\ constructed[2].thread # constructed[1].thread
    /\ constructed[1].shape \notin live
    /\ constructed[3].via = "Sphere { .. }"
    /\ IdOf(1) < IdOf(3)

(* Equality of shapes *)

\* C16: two shapes compare equal exactly when their ids are equal, through
\* the Shape trait object and as concrete Sphere or Plane values.
C16_Original ==
    op \in {"Shape_eq", "Sphere_eq", "Plane_eq"} =>
        (res <=> args[1].id = args[2].id)

\* what holds of the code: by id through the trait object; by id, transform
\* and material (each within epsilon, the pattern left out) for the
\* concrete types, so that shapes with different ids are never equal
EqualityAsCoded ==
    /\ op = "Shape_eq" => (res <=> args[1].id = args[2].id)
    /\ op \in {"Sphere_eq", "Plane_eq"} =>
          /\ res => args[1].id = args[2].id
          /\ (args[1].id = args[2].id
               /\ ~Mat4_eq(args[1].transform, args[2].transform)) => ~res

(* Camera::render, pixel by pixel in any order *)

RECURSIVE SequentialFrom(_, _, _, _)
\* the image after the loops of render have run from the k-th pixel of the
\* row-major order on
SequentialFrom(self, w, img, k) ==
    IF k = self.hsize * self.vsize THEN img
    ELSE SequentialFrom(self, w,
                        render_body(self, w, img, k % self.hsize, k \div self.hsize),
                        k + 1)

\* the canvas the sequential row-major loop returns
Sequential(self, w) ==
    SequentialFrom(self, w, Canvas_new(self.hsize, self.vsize), 0)

\* C17: whatever the order and interleaving of the pixel computations, the
\* canvas render returns is the canvas of the sequential row-major loop,
\* and no step of render changes the World, the Camera or OBJECT_COUNTER.
C17_Independent ==
    /\ [](pc \in {"done", "joined"} => image = Sequential(camera, world))
    /\ [][/\ world' = world
           /\ camera' = camera
           /\ OBJECT_COUNTER' = OBJECT_COUNTER]_vars

\* tasks joined after the last pixel of the row-major order was written
\* first, on a canvas whose pixels differ
C17_Witness ==
    /\ pc = "joined"
    /\ visited = << << 1, 1 >> >>
    /\ camera.hsize = 2 /\ camera.vsize = 2
    /\ world = World_default
    /\ Canvas_at(image, 0, 0) # Canvas_at(image, 1, 0)
    /\ image = Sequential(camera, world)

(* Canvas::to_ppm *)

\* the j-th smallest of a set of positions
Nth(P, j) == CHOOSE p \in P : Cardinality({ q \in P : q < p }) = j - 1

\* the pieces of s between consecutive cuts
PiecesBetween(s, cuts) ==
    [j \in 1..(Cardinality(cuts) - 1) |->
        SubSeq(s, Nth(cuts, j) + 1, Nth(cuts, j + 1) - 1)]

\* the pieces of s between the separators
Split(s, sep) ==
    PiecesBetween(s, {0, Len(s) + 1} \cup { i \in 1..Len(s) : s[i] = sep })

\* the lines of a text, each ended by a newline
Lines(s) == SubSeq(Split(s, "\n"), 1, Len(Split(s, "\n")) - 1)

\* the lines after the three lines of the header
Body(s) == SubSeq(Lines(s), 4, Len(Lines(s)))

\* the numbers of a line: its pieces between single spaces
Numbers(line) == IF line = << >> THEN << >> ELSE Split(line, " ")

RECURSIVE Flatten(_)
Flatten(lines) ==
    IF lines = << >> THEN << >>
    ELSE Numbers(Head(lines)) \o Flatten(Tail(lines))

\* channel k of a canvas: pixels row by row, red, green, blue in each
Channel(self, k) ==
    LET pixel == Canvas_at(self, ((k - 1) \div 3) % self.width,
                           ((k - 1) \div 3) \div self.width)
    IN  CASE (k - 1) % 3 = 0 -> pixel.red
          [] (k - 1) % 3 = 1 -> pixel.green
          [] (k - 1) % 3 = 2 -> pixel.blue

\* the text of every channel as to_ppm converts it
ChannelTexts(self) ==
    [k \in 1..(3 * self.width * self.height) |-> channel_to_string(Channel(self, k))]

\* C18: no line of the text of to_ppm has more than 70 characters, and the
\* numbers read off the lines are the texts of the channels, whole and in
\* order: no line break falls inside a number.
C18_LineLength ==
    op = "to_ppm" =>
        /\ \A i \in 1..Len(Lines(res)) : Len(Lines(res)[i]) <= 70
        /\ Flatten(Body(res)) = ChannelTexts(args[1])

\* a row wrapped after a line of exactly 70 characters
C18_Witness ==
    /\ op = "to_ppm"
    /\ args[1].height = 1
    /\ Len(Body(res)) = 2
    /\ Len(Body(res)[1]) = 70
    /\ Flatten(Body(res)) = ChannelTexts(args[1])

\* ceil(channel * 255) clamped to the integers 0..255, in decimal digits
ClampedCeil(channel) ==
    usize_to_string(clamp(FCeil(FMul(channel, Num(255))), 0, Num(255)) \div Scale)

RECURSIVE NumbersBefore(_, _)
\* how many numbers stand on the lines before line i
NumbersBefore(lines, i) ==
    IF i = 1 THEN 0
    ELSE NumbersBefore(lines, i - 1) + Len(Numbers(lines[i - 1]))

\* C19: the text of to_ppm is the lines P3, "<width> <height>" and 255, then
\* 3 * width * height numbers, the pixels row by row with red, green and
\* blue of each, every number ceil(channel * 255) clamped to the integers
\* 0..255, and every row of the canvas starts on a new line.
C19_Original ==
    op = "to_ppm" =>
        /\ Len(Lines(res)) >= 3
        /\ Lines(res)[1] = << "P", "3" >>
        /\ Lines(res)[2] = usize_to_string(args[1].width) \o << " " >>
                               \o usize_to_string(args[1].height)
        /\ Lines(res)[3] = << "2", "5", "5" >>
        /\ Flatten(Body(res)) =
              [k \in 1..(3 * args[1].width * args[1].height) |->
                  ClampedCeil(Channel(args[1], k))]
        /\ \A row \in 0..(args[1].height - 1) :
              \E i \in 1..Len(Body(res)) :
                  NumbersBefore(Body(res), i) = 3 * args[1].width * row

\* what to_ppm writes: the header, the rows each from a new line, and the
\* channels as the code converts them, where a channel between -1/255 and 0
\* is written -0
PpmAsCoded ==
    op = "to_ppm" =>
        /\ SubSeq(Lines(res), 1, 3) =
              << << "P", "3" >>,
                 usize_to_string(args[1].width) \o << " " >>
                     \o usize_to_string(args[1].height),
                 << "2", "5", "5" >> >>
        /\ Flatten(Body(res)) = ChannelTexts(args[1])
        /\ \A k \in 1..Len(ChannelTexts(args[1])) :
              ChannelTexts(args[1])[k] # ClampedCeil(Channel(args[1], k))
                  => /\ ChannelTexts(args[1])[k] = << "-", "0" >>
                     /\ ClampedCeil(Channel(args[1], k)) = << "0" >>
        /\ \A row \in 0..(args[1].height - 1) :
              \E i \in 1..Len(Body(res)) :
                  NumbersBefore(Body(res), i) = 3 * args[1].width * row

(* impl Index / IndexMut *)

CanvasOps == { "Canvas_index", "Canvas_index_mut" }
IndexOps ==
    { "Mat4_index", "Mat4_index_mut", "Mat3_index", "Mat3_index_mut",
      "Mat2_index", "Mat2_index_mut" } \cup CanvasOps

\* the order of the matrix indexed
Order ==
    CASE op \in { "Mat4_index", "Mat4_index_mut" } -> 4
      [] op \in { "Mat3_index", "Mat3_index_mut" } -> 3
      [] op \in { "Mat2_index", "Mat2_index_mut" } -> 2

\* both indices of the access made are in bounds
InBounds ==
    IF op \in CanvasOps
    THEN args[2][1] < args[1].width /\ args[2][2] < args[1].height
    ELSE args[2][1] < Order /\ args[2][2] < Order

\* the elements of the matrix or canvas before the access
ElementsBefore == IF op \in CanvasOps THEN args[1].array ELSE args[1]

\* C20: an access to a matrix element with row or column not below the order
\* of the matrix, or to a canvas pixel with x >= width or y >= height, panics
\* without reading or changing any element; an access with both indices in
\* bounds does not panic.
C20_IndexBounds ==
    op \in IndexOps =>
        IF InBounds
        THEN ~res.panic /\ Cardinality(res.place) = 1
        ELSE /\ res.panic
             /\ res.place = {}
             /\ res.output = {}
             /\ res.after = ElementsBefore

\* a write to row 0, column 5 of a Mat4, which a flat offset would place
\* inside the 16 elements, has panicked and left the matrix as it was
C20_Witness ==
    /\ op = "Mat4_index_mut"
    /\ args[2] = << 0, 5 >>
    /\ res.panic
    /\ res.after = args[1]

(* impl From<&[f64]> for the matrices *)

FromOps == { "Mat4_from", "Mat3_from", "Mat2_from" }

SizeOps ==
    FromOps \cup
    { "Mat4_submatrix", "Mat3_submatrix", "Mat4_zero", "Mat4_identity",
      "Mat4_transpose", "Mat4_mul", "Mat4_inverse", "Mat4_translate",
      "Mat4_scale", "Mat4_rotate_x", "Mat4_rotate_y", "Mat4_rotate_z",
      "Mat4_shear" }

\* the order of the matrix the call returns
OrderReturned ==
    CASE op \in { "Mat3_from", "Mat4_submatrix" } -> 3
      [] op \in { "Mat2_from", "Mat3_submatrix" } -> 2
      [] OTHER -> 4

\* C21: Mat4::from, Mat3::from and Mat2::from panic and return no matrix
\* exactly when the slice does not have 16, 9 or 4 elements; every matrix a
\* function returns (from, submatrix, zero, identity, transpose, the
\* product, inverse and the builders) has order * order elements.
C21_Square ==
    op \in SizeOps =>
        /\ op \in FromOps =>
              (res.panic <=> Len(args[1]) # OrderReturned * OrderReturned)
        /\ res.panic => res.mat = << >>
        /\ ~res.panic => Len(res.mat) = OrderReturned * OrderReturned

\* a slice of 17 elements was refused, and a submatrix asked for with a row
\* outside the matrix as well
C21_Witness ==
    \/ /\ op = "Mat4_from" /\ Len(args[1]) = 17
       /\ res.panic /\ res.mat = << >>
    \/ /\ op = "Mat4_submatrix" /\ args[2] = 5
       /\ res.panic /\ res.mat = << >>

(* Vector::normalize *)

CrossOf(a, b) ==
    Vec3(FMul(a.y, b.z) - FMul(a.z, b.y),
         FMul(a.z, b.x) - FMul(a.x, b.z),
         FMul(a.x, b.y) - FMul(a.y, b.x))

\* u is a unit vector along v
UnitAlong(u, v) ==
    /\ is_equal(magnitude(u), Num(1))
    /\ Vec3_eq(CrossOf(u, v), Vec3(0, 0, 0))
    /\ dot(u, v) > 0

CompareOps ==
    { "Tuple_eq", "Point_eq", "Vector_eq", "Color_eq", "Mat4_eq", "Mat3_eq",
      "Mat2_eq" }

\* the components of a value compared, in order
Components(v) ==
    CASE op = "Tuple_eq" -> << v.x, v.y, v.z, v.w >>
      [] op \in { "Point_eq", "Vector_eq" } -> << v.x, v.y, v.z >>
      [] op = "Color_eq" -> << v.red, v.green, v.blue >>
      [] OTHER -> v

\* every pair of corresponding components differs by less than epsilon
WithinEpsilon(a, b) == \A i \in 1..Len(a) : Abs(a[i] - b[i]) < EPSILON

\* C23: every equality comparison of tuples, points, vectors, colors and
\* matrices is true exactly when every pair of corresponding components
\* differs by less than epsilon; none compares floats exactly.
C23_Original ==
    op \in CompareOps =>
        (res <=> WithinEpsilon(Components(args[1]), Components(args[2])))

\* what the comparisons do: Point, Vector, Color and the matrices compare
\* within epsilon, Tuple compares exactly
ComparisonsAsCoded ==
    /\ op \in CompareOps \ { "Tuple_eq" } =>
          (res <=> WithinEpsilon(Components(args[1]), Components(args[2])))
    /\ op = "Tuple_eq" => (res <=> args[1] = args[2])

(* Camera::new *)

\* hsize / vsize of the call made
Aspect == FDiv(Num(args[1]), Num(args[2]))

\* tan(field_of_view / 2) of the call made
HalfView == tan(FDiv(args[3], Num(2)))

\* how far the truncations of the fixed point (under one unit each, in
\* half_width or half_height, in pixel_size and in the product) can move
\* pixel_size * vsize; f64 rounds at the 16th digit instead
Rounding(vsize) == 3 * vsize + 1

\* C24: with aspect = hsize / vsize, Camera::new sets half_width =
\* tan(fov / 2) and half_height = half_width / aspect when aspect >= 1, and
\* half_height = tan(fov / 2) and half_width = half_height * aspect
\* otherwise; pixel_size = 2 * half_width / hsize, and the pixels are square:
\* pixel_size * vsize = 2 * half_height up to the rounding of the arithmetic.
C24_Fields ==
    op = "Camera_new" =>
        /\ IF Aspect >= Num(1)
           THEN /\ res.half_width = HalfView
                /\ res.half_height = FDiv(res.half_width, Aspect)
           ELSE /\ res.half_height = HalfView
                /\ res.half_width = FMul(res.half_height, Aspect)
        /\ res.pixel_size = FDiv(2 * res.half_width, Num(args[1]))
        /\ Abs(FMul(res.pixel_size, Num(args[2])) - 2 * res.half_height)
              <= Rounding(args[2])

\* an upright camera of 2 by 5 pixels: the height has the full half view
C24_Witness ==
    /\ op = "Camera_new"
    /\ args[1] = 2 /\ args[2] = 5
    /\ res.half_height = HalfView
    /\ res.half_width < res.half_height
    /\ is_equal(FMul(res.pixel_size, Num(5)), 2 * res.half_height)

\* the half extent of the axis with fewer pixels
NarrowerHalf == IF args[1] < args[2] THEN res.half_width ELSE res.half_height

\* the half extent of the axis with more pixels
WiderHalf == IF args[1] < args[2] THEN res.half_height ELSE res.half_width

\* C25 as stated: the half extent of the axis with fewer pixels is
\* tan(fov / 2).
C25_Original == op = "Camera_new" => is_equal(NarrowerHalf, HalfView)

\* C25: the half extent of the axis with more pixels is tan(fov / 2), and
\* that of the axis with fewer pixels is tan(fov / 2) times the ratio of the
\* fewer to the more, so it is smaller unless hsize = vsize.
C25_WiderAxis ==
    op = "Camera_new" =>
        /\ WiderHalf = HalfView
        /\ args[1] < args[2] => is_equal(NarrowerHalf, FDiv(HalfView * args[1], Num(args[2])))
        /\ args[1] > args[2] => is_equal(NarrowerHalf, FDiv(HalfView * args[2], Num(args[1])))
        /\ args[1] # args[2] => NarrowerHalf < HalfView - EPSILON
        /\ args[1] = args[2] => NarrowerHalf = HalfView

\* a camera of 4 by 2 pixels: the width has the full half view, the height
\* half of it
C25_Witness ==
    /\ op = "Camera_new"
    /\ args[1] = 4 /\ args[2] = 2
    /\ res.half_width = HalfView
    /\ is_equal(res.half_height, HalfView \div 2)

(* Stripe::at *)

\* floor(a) as an integer; \div rounds down
FloorOf(a) == a \div Scale

\* C26: Stripe::at returns a when floor(x) is even and b when it is odd,
\* negative x included, whatever y and z are: the color at (x, y, z) is the
\* color at (x, 0, 0), and it changes from one integer interval of x to the
\* next and nowhere inside one.
C26_Stripe ==
    op = "Stripe_at" =>
        /\ res = IF FloorOf(args[2].x) % 2 = 0 THEN args[1].a ELSE args[1].b
        /\ res = Stripe_at(args[1], Vec3(args[2].x, 0, 0))
        /\ res = Stripe_at(args[1], Vec3(FloorOf(args[2].x) * Scale, 0, 0))
        /\ res # Stripe_at(args[1], Vec3((FloorOf(args[2].x) + 1) * Scale, 0, 0))
        /\ res # Stripe_at(args[1], Vec3(args[2].x - Scale, 0, 0))

\* x = -0.1, below zero and above -1: floor is -1, odd, the color is b
C26_Witness ==
    /\ op = "Stripe_at"
    /\ args[2].x = -Tenths(1)
    /\ args[2].y # 0
    /\ res = args[1].b
    /\ res # args[1].a

(* Intersection::prepare *)

\* comps is what the claim says of prepare, n being shape.normal_at(point)
PreparedAs(comps, self, ray, n) ==
    /\ comps.t = self.t
    /\ comps.object = self.object
    /\ comps.point = position(ray, self.t)
    /\ comps.eyev = VNeg(ray.direction)
    /\ IF dot(n, comps.eyev) < 0
       THEN comps.inside /\ comps.normal = VNeg(n)
       ELSE ~comps.inside /\ comps.normal = n
    /\ dot(comps.normal, comps.eyev) >= 0
    /\ comps.over_point = VAdd(comps.point, VScale(comps.normal, EPSILON))

\* C27: prepare keeps t and the shape, sets point = ray.position(t) and
\* eye = -ray.direction, sets inside with the normal negated exactly when
\* normal_at(point) . eye < 0, so that normal . eye >= 0 for the normal
\* returned, and over_point = point + epsilon * that normal.
C27_Prepare ==
    op = "prepare" =>
        PreparedAs(res, args[1], args[2],
                   normal_at(args[1].object, position(args[2], args[1].t)))

\* a hit from inside the unit sphere: the normal was flipped toward the eye
C27_Witness ==
    /\ op = "prepare"
    /\ args[1].object = Sphere_new(0)
    /\ args[2] = Ray(Vec3(0, 0, 0), Vec3(0, 0, Num(1)))
    /\ args[1].t = Num(1)
    /\ res.inside
    /\ res.normal = Vec3(0, 0, -Num(1))
    /\ res.over_point = Vec3(0, 0, Num(1) - EPSILON)

(* The composite patterns *)

\* the first child of a composite
FirstChild(self) == IF self.kind = "Perturb" THEN self.pattern ELSE self.a

\* C28: a composite pattern (StripeNested, RingNested, CheckersNested,
\* GradientNested, RadialGradientNested, Blended, Perturb) asks its children
\* with at() at the point it was asked at (Perturb: at that point moved by
\* the noise), never through the child's transform: two trees that differ
\* only in the transforms of the children give the same color at every
\* point.
C28_ChildTransform ==
    op = "Pattern_at" =>
        /\ res[1] = res[2]
        /\ args[1].kind = "Blended" =>
              res[2] = CScale(CAdd(Pattern_at(args[2].a, args[3]),
                                   Pattern_at(args[2].b, args[3])), Tenths(5))
        /\ args[1].kind = "StripeNested" =>
              res[2] = IF stripe_even(args[3]) THEN Pattern_at(args[2].a, args[3])
                       ELSE Pattern_at(args[2].b, args[3])
        /\ args[1].kind = "Perturb" =>
              res[2] = Pattern_at(args[2].pattern,
                                  perturbed(args[3], Perlin_get(args[2].perlin, args[3])))

\* two trees whose children differ in their transforms, at a point where the
\* first child asked in its own pattern space would answer another color
C28_Witness ==
    /\ op = "Pattern_at"
    /\ args[1] # args[2]
    /\ res[1] = res[2]
    /\ Pattern_at(FirstChild(args[2]),
                  Mat4_mul_point(inv(FirstChild(args[2]).transform), args[3]))
          # Pattern_at(FirstChild(args[2]), args[3])
    /\ args[1].kind = "StripeNested"
    /\ stripe_even(args[3])

(* Canvas::new and IndexMut for Canvas *)

\* what canvas[(x, y)] reads
ReadBack(index) == read_at(image.array, Canvas_index(image, index))

\* C29: a new canvas is black everywhere, and after any sequence of writes
\* in bounds every pixel reads back the color last written to it, or black
\* if it was never written: a write changes its own pixel only.
C29_Frame ==
    op = "canvas" =>
        /\ Len(image.array) = image.width * image.height
        /\ \A index \in DOMAIN args :
              /\ ~ReadBack(index).panic
              /\ ReadBack(index).output = { args[index] }

\* a canvas of 2 by 2 after three writes, with a pixel never written still
\* black next to pixels holding what was written last
C29_Witness ==
    /\ op = "canvas"
    /\ res = 3
    /\ image.width = 2 /\ image.height = 2
    /\ args[<<1, 0>>] = RED
    /\ args[<<0, 1>>] = WHITE
    /\ args[<<1, 1>>] = BLACK
    /\ ReadBack(<<1, 0>>).output = { RED }
    /\ ReadBack(<<0, 1>>).output = { WHITE }
    /\ ReadBack(<<1, 1>>).output = { BLACK }

(* impl PartialEq for Material *)

\* color, ambient, diffuse, specular and shininess of a material
Compared(m) ==
    << m.color.red, m.color.green, m.color.blue, m.ambient, m.diffuse,
       m.specular, Num(m.shininess) >>

\* C30: two materials are equal exactly when color, ambient, diffuse,
\* specular and shininess are each within epsilon; the pattern is not
\* compared, so materials that differ only in their pattern are equal.
C30_Material ==
    op = "Material_eq" =>
        (res <=> WithinEpsilon(Compared(args[1]), Compared(args[2])))

\* a material without a pattern and one with a stripe pattern, otherwise the
\* same, were found equal
C30_Witness ==
    /\ op = "Material_eq"
    /\ args[1].pattern = None_pattern
    /\ args[2].pattern = Stripe(WHITE, BLACK, Mat4_identity)
    /\ [args[2] EXCEPT !.pattern = None_pattern] = args[1]
    /\ res = TRUE
====
